---- MODULE Spec2Model ----
(***************************************************************************)
(* A model of the citation pipeline of reference_agent:                    *)
(*   - utils.extract_citations_with_regex / utils.get_citation_markers     *)
(*     (marker extraction: regex pass, model-assisted pass, merge),        *)
(*   - Agent.verify_citations_referenced (missing / duplicate statistics), *)
(*   - the arXiv title loop of verify_citations_and_analyze_with_logs,     *)
(*   - utils.batch_verify_citations_lightweight and the two PDF-based      *)
(*     verification loops, with their verdict statistics,                  *)
(*   - single calls of is_similar and of safe_download.                    *)
(* Texts are sequences of one-character strings, so that the regular       *)
(* expressions, str.strip, str.split and the "in" tests of the source are  *)
(* computed character by character.                                        *)
(***************************************************************************)
EXTENDS Integers, Sequences, FiniteSets, TLC

VARIABLES
    \* ---- marker extraction and reconciliation
    content,            \* the document text (doc_content / self.doc)
    apiKey,             \* whether os.environ holds ZHIPUAI_API_KEY
    caller,             \* which function calls get_citation_markers
    pcE,                \* position of the extraction run
    titlesN,            \* len(titles) as returned by get_reference_titles
    regex_results,      \* result of extract_citations_with_regex
    chunkIdx,           \* number of chunks the model has answered
    modelCalls,         \* number of calls of client.chat.completions.create
    all_ai_results,     \* markers parsed from the model's lines
    aiAccepted,         \* indices of all_ai_results the merge loop appended
    via,                \* the return statement get_citation_markers left by
    citations_to_text,  \* value returned by get_citation_markers
    citations,          \* flattened citation numbers (agent.py:109-115)
    missed_citations,   \* agent.py:119
    counter,            \* Counter(citations), agent.py:127
    \* ---- the arXiv title loop (app.py:133-191)
    titles,             \* the reference titles, in order
    titleIdx,           \* number of titles the loop has processed (i + 1)
    search,             \* what search_from_arxiv did for the latest title
    examined,           \* results of the latest title given to is_similar
    arxiv_found,        \* app.py:133
    arxiv_not_found,    \* app.py:134
    pcR,                \* position of the title loop
    \* ---- the verification loops and their statistics
    mode,               \* which verification loop runs
    ref_names,          \* numbers of the PDF files in the reference folder
    markers,            \* the citations of citations_to_text, in order
    markerIdx,          \* number of markers the loop has processed
    verification_results,   \* utils.py:321, app.py:209
    checked_count,      \* agent.py:230
    bad_count,          \* agent.py:229
    skipped_count,      \* agent.py:231
    responses,          \* what the model returned so far, in order
    last,               \* what happened while the latest marker was processed
    stats,              \* the statistics computed after the loop
    pcV,                \* position of the verification run
    \* ---- one call of is_similar
    argA,               \* title1
    argB,               \* title2
    argT,               \* threshold
    matched,            \* the value is_similar returned
    pcS,                \* position of the call
    \* ---- one call of safe_download (agent.py:26-37)
    dlTitle,            \* title
    dlIndex,            \* i: the file is written as "{i+1}.pdf"
    attempts,           \* number of calls of result.download_pdf
    failures,           \* the exceptions caught so far, in order
    slept,              \* seconds spent in time.sleep
    files,              \* numbers of the files written
    success,            \* the value safe_download returned: "True" or "False"
    pcD,                \* position of the call
    \* ---- the choice of a metadata record for one cited title (utils.py:337-357)
    selTitle,           \* title
    fetched,            \* metadata_results: titles of the records returned
    chosen,             \* best_match after the loop, NoRecord when none is kept
    pcB,                \* position of the choice
    \* ---- Agent.download_literatures (agent.py:137-225)
    dl_titles,          \* titles
    dl_idx,             \* number of titles the loop has processed
    existing,           \* numbers of the PDF files present before the run
    failed_titles,      \* agent.py:140
    skipped_titles,     \* agent.py:141
    downloaded,         \* numbers of the files a download has written
    dl_last,            \* what happened while the latest title was processed
    dl_stats,           \* the counts of agent.py:200-203
    pcL,                \* position of the download loop
    \* ---- two calls of get_citation_markers on one document
    oracle,             \* what the model does for the prompt of each chunk
    run,                \* which of the two calls is running
    firstResult         \* value the first call returned

varsE == <<content, apiKey, caller, pcE, titlesN, regex_results, chunkIdx,
           modelCalls, all_ai_results, aiAccepted, via, citations_to_text, citations,
           missed_citations, counter>>

varsR == <<titles, titleIdx, search, examined, arxiv_found, arxiv_not_found, pcR>>

varsV == <<mode, ref_names, markers, markerIdx, verification_results,
           checked_count, bad_count, skipped_count, responses, last, stats, pcV>>

varsS == <<argA, argB, argT, matched, pcS>>

varsD == <<dlTitle, dlIndex, attempts, failures, slept, files, success, pcD>>

varsB == <<selTitle, fetched, chosen, pcB>>

varsL == <<dl_titles, dl_idx, existing, failed_titles, skipped_titles,
           downloaded, dl_last, dl_stats, pcL>>

varsH == <<oracle, run, firstResult>>

vars == <<varsE, varsR, varsV, varsS, varsD, varsB, varsL, varsH>>

\* is_similar is not being called
IdleS ==
    /\ argA = <<>>
    /\ argB = <<>>
    /\ argT = <<0, 1>>
    /\ matched = "none"
    /\ pcS = "idle"

\* no metadata record is being chosen
IdleB ==
    /\ selTitle = "none"
    /\ fetched = <<>>
    /\ chosen = "none"
    /\ pcB = "idle"

\* what is recorded about a title before anything happened to it
NoDownload == [searched |-> "no", candidates |-> 0, calls |-> 0, outcome |-> "none"]

\* get_citation_markers is not being called twice
IdleH ==
    /\ oracle = <<>>
    /\ run = 0
    /\ firstResult = <<>>

\* download_literatures has not been started
IdleL ==
    /\ dl_titles = <<>>
    /\ dl_idx = 0
    /\ existing = {}
    /\ failed_titles = <<>>
    /\ skipped_titles = <<>>
    /\ downloaded = {}
    /\ dl_last = NoDownload
    /\ dl_stats = [computed |-> FALSE]
    /\ pcL = "idle"

\* safe_download is not being called
IdleD ==
    /\ dlTitle = "none"
    /\ dlIndex = 0
    /\ attempts = 0
    /\ failures = <<>>
    /\ slept = 0
    /\ files = {}
    /\ success = "none"
    /\ pcD = "idle"

\* the title loop has not been started
IdleR ==
    /\ titles = <<>>
    /\ titleIdx = 0
    /\ search = [raised |-> FALSE, results |-> <<>>]
    /\ examined = 0
    /\ arxiv_found = <<>>
    /\ arxiv_not_found = <<>>
    /\ pcR = "idle"

\* what is recorded about a marker before anything happened to it
NoCalls ==
    [searches |-> 0, search_raised |-> FALSE, load |-> "none", model |-> "none",
     verdict |-> "none", outcome |-> "none"]

\* no verification loop has been started
IdleV ==
    /\ mode = "none"
    /\ ref_names = {}
    /\ markers = <<>>
    /\ markerIdx = 0
    /\ verification_results = <<>>
    /\ checked_count = 0
    /\ bad_count = 0
    /\ skipped_count = 0
    /\ responses = <<>>
    /\ last = NoCalls
    /\ stats = [computed |-> FALSE]
    /\ pcV = "idle"

----------------------------------------------------------------------------
(* Bounds of the model *)

\* longest document, in segments of SegPool
MaxSegs == 3
\* most lines in one model response
MaxLines == 2
\* most reference titles
MaxTitles == 5

----------------------------------------------------------------------------
(* Characters and strings *)

Digits == <<"0", "1", "2", "3", "4", "5", "6", "7", "8", "9">>

IsDigit(c) == \E k \in 1..10 : Digits[k] = c

DigitVal(c) == (CHOOSE k \in 1..10 : Digits[k] = c) - 1

\* \s of the re module, and the characters str.strip removes
IsSpace(c) == c \in {" ", "\n", "\t"}

Max2(a, b) == IF a >= b THEN a ELSE b

Min2(a, b) == IF a <= b THEN a ELSE b

\* first index >= i of s that holds no whitespace (Len(s)+1 when none)
RECURSIVE SkipSpaces(_, _)
SkipSpaces(s, i) ==
    IF i <= Len(s) /\ IsSpace(s[i]) THEN SkipSpaces(s, i + 1) ELSE i

\* first index >= i of s that holds no digit
RECURSIVE SkipDigits(_, _)
SkipDigits(s, i) ==
    IF i <= Len(s) /\ IsDigit(s[i]) THEN SkipDigits(s, i + 1) ELSE i

\* last index <= i of s that holds no whitespace (0 when none)
RECURSIVE SkipSpacesBack(_, _)
SkipSpacesBack(s, i) ==
    IF i >= 1 /\ IsSpace(s[i]) THEN SkipSpacesBack(s, i - 1) ELSE i

\* str.strip()
Strip(s) ==
    LET a == SkipSpaces(s, 1)
        b == SkipSpacesBack(s, Len(s))
    IN  IF a > b THEN <<>> ELSE SubSeq(s, a, b)

\* sub occurs in s at index i
OccursAt(sub, s, i) ==
    /\ i + Len(sub) - 1 <= Len(s)
    /\ \A k \in 1..Len(sub) : s[i + k - 1] = sub[k]

\* the Python test  sub in s
Contains(sub, s) == \E i \in 1..(Len(s) + 1) : OccursAt(sub, s, i)

\* index of the first occurrence of character c in s, 0 when absent
IndexOf(c, s) ==
    IF \E i \in 1..Len(s) : s[i] = c
    THEN CHOOSE i \in 1..Len(s) : s[i] = c /\ \A j \in 1..(i - 1) : s[j] # c
    ELSE 0

\* str.split(c) for a one-character separator
RECURSIVE SplitOn(_, _)
SplitOn(c, s) ==
    LET i == IndexOf(c, s)
    IN  IF i = 0 THEN <<s>>
        ELSE <<SubSeq(s, 1, i - 1)>> \o SplitOn(c, SubSeq(s, i + 1, Len(s)))

\* value of a non-empty digit string
RECURSIVE DecimalValue(_)
DecimalValue(s) ==
    IF Len(s) = 0 THEN 0
    ELSE 10 * DecimalValue(SubSeq(s, 1, Len(s) - 1)) + DigitVal(s[Len(s)])

AllDigits(s) == Len(s) > 0 /\ \A k \in 1..Len(s) : IsDigit(s[k])

\* int(x.strip()): the literal is an optional sign followed by digits;
\* anything else raises ValueError
IntParses(x) ==
    LET t == Strip(x)
    IN  \/ AllDigits(t)
        \/ Len(t) > 1 /\ t[1] \in {"+", "-"} /\ AllDigits(Tail(t))

IntValue(x) ==
    LET t == Strip(x)
    IN  IF AllDigits(t) THEN DecimalValue(t)
        ELSE IF t[1] = "-" THEN 0 - DecimalValue(Tail(t))
        ELSE DecimalValue(Tail(t))

----------------------------------------------------------------------------
(* Sequences of numbers *)

Range(s) == {s[k] : k \in 1..Len(s)}

\* insert x into the ascending sequence s
RECURSIVE InsertSorted(_, _)
InsertSorted(x, s) ==
    IF Len(s) = 0 THEN <<x>>
    ELSE IF x < Head(s) THEN <<x>> \o s
    ELSE <<Head(s)>> \o InsertSorted(x, Tail(s))

\* sorted(citations)
RECURSIVE Sorted(_)
Sorted(s) ==
    IF Len(s) = 0 THEN <<>>
    ELSE InsertSorted(s[Len(s)], Sorted(SubSeq(s, 1, Len(s) - 1)))

\* min(x) of a non-empty sequence
MinOf(s) == CHOOSE m \in Range(s) : \A n \in Range(s) : m <= n

\* number of occurrences of n in s
RECURSIVE CountIn(_, _)
CountIn(n, s) ==
    IF Len(s) = 0 THEN 0
    ELSE (IF Head(s) = n THEN 1 ELSE 0) + CountIn(n, Tail(s))

----------------------------------------------------------------------------
(* utils.extract_citations_with_regex *)

\* a marker: [citations, text] of the source
Marker(cit, text) == [cit |-> cit, text |-> text]

\* chars of context taken on each side of a match (utils.py:93-94)
ContextWindow == 100

\* \d+(?:\s*,\s*\d+)* matched greedily from the digit run ending before j:
\* the index after the last digit the group takes
RECURSIVE ListEnd(_, _)
ListEnd(s, j) ==
    LET k == SkipSpaces(s, j)
        m == SkipSpaces(s, k + 1)
    IN  IF k <= Len(s) /\ s[k] = "," /\ m <= Len(s) /\ IsDigit(s[m])
        THEN ListEnd(s, SkipDigits(s, m))
        ELSE j

NoMatch == [ok |-> FALSE, start |-> 0, end |-> 0, g1 |-> <<>>]

\* pattern 1, \[(\d+(?:\s*,\s*\d+)*)\], tried at index i
MatchPattern1(s, i) ==
    IF i + 1 <= Len(s) /\ s[i] = "[" /\ IsDigit(s[i + 1])
    THEN LET e == ListEnd(s, SkipDigits(s, i + 1))
         IN  IF e <= Len(s) /\ s[e] = "]"
             THEN [ok |-> TRUE, start |-> i, end |-> e,
                   g1 |-> SubSeq(s, i + 1, e - 1)]
             ELSE NoMatch
    ELSE NoMatch

\* pattern 2, \[\s*(\d+(?:\s*,\s*\d+)*)\s*\], tried at index i
MatchPattern2(s, i) ==
    IF i <= Len(s) /\ s[i] = "["
    THEN LET a == SkipSpaces(s, i + 1)
         IN  IF a <= Len(s) /\ IsDigit(s[a])
             THEN LET e == ListEnd(s, SkipDigits(s, a))
                      b == SkipSpaces(s, e)
                  IN  IF b <= Len(s) /\ s[b] = "]"
                      THEN [ok |-> TRUE, start |-> i, end |-> b,
                            g1 |-> SubSeq(s, a, e - 1)]
                      ELSE NoMatch
             ELSE NoMatch
    ELSE NoMatch

MatchPattern(p, s, i) == IF p = 1 THEN MatchPattern1(s, i) ELSE MatchPattern2(s, i)

\* the first index >= i of s that holds "[" (Len(s)+1 when none): both
\* patterns start with \[, so no match starts anywhere else
NextBracket(s, i) ==
    IF \E k \in i..Len(s) : s[k] = "["
    THEN CHOOSE k \in i..Len(s) : s[k] = "[" /\ \A h \in i..(k - 1) : s[h] # "["
    ELSE Len(s) + 1

\* re.finditer(pattern, content): the non-overlapping matches, left to right
RECURSIVE FindIter(_, _, _)
FindIter(p, s, i) ==
    IF i > Len(s) THEN <<>>
    ELSE LET m == MatchPattern(p, s, i)
         IN  IF m.ok THEN <<m>> \o FindIter(p, s, m.end + 1)
             ELSE FindIter(p, s, NextBracket(s, i + 1))

\* utils.py:82-89: the numbers of citation_str, a token int() rejects skipped
RECURSIVE ParseTokens(_)
ParseTokens(toks) ==
    IF Len(toks) = 0 THEN <<>>
    ELSE (IF IntParses(Head(toks)) THEN <<IntValue(Head(toks))>> ELSE <<>>)
         \o ParseTokens(Tail(toks))

ParseCitations(citation_str) == ParseTokens(SplitOn(",", citation_str))

\* index of the first sentence separator [.!?]\s+ of s, 0 when none
SeparatorAt(s, i) ==
    i < Len(s) /\ s[i] \in {".", "!", "?"} /\ IsSpace(s[i + 1])

FirstSeparator(s) ==
    IF \E i \in 1..Len(s) : SeparatorAt(s, i)
    THEN CHOOSE i \in 1..Len(s) :
            SeparatorAt(s, i) /\ \A j \in 1..(i - 1) : ~SeparatorAt(s, j)
    ELSE 0

\* re.split(r'[.!?]\s+', context)
RECURSIVE SplitSentences(_)
SplitSentences(s) ==
    LET i == FirstSeparator(s)
    IN  IF i = 0 THEN <<s>>
        ELSE <<SubSeq(s, 1, i - 1)>>
             \o SplitSentences(SubSeq(s, SkipSpaces(s, i + 1), Len(s)))

\* utils.py:93-106: the sentence of the context window that holds the match
TargetSentence(s, m) ==
    LET start == Max2(1, m.start - ContextWindow)
        end == Min2(Len(s), m.end + ContextWindow)
        context == Strip(SubSeq(s, start, end))
        group0 == SubSeq(s, m.start, m.end)
        sentences == SplitSentences(context)
        hits == {k \in 1..Len(sentences) : Contains(group0, sentences[k])}
    IN  IF hits = {} THEN context
        ELSE LET k == CHOOSE k \in hits : \A h \in hits : k <= h
                 target_sentence == Strip(sentences[k])
             IN  IF target_sentence = <<>> THEN context ELSE target_sentence

\* utils.py:77-108: one [citations, sentence] per match with a number,
\* all matches of pattern 1 first, then all matches of pattern 2
RECURSIVE MatchResults(_, _)
MatchResults(s, ms) ==
    IF Len(ms) = 0 THEN <<>>
    ELSE LET cit == ParseCitations(Head(ms).g1)
         IN  (IF Len(cit) > 0
              THEN <<Marker(cit, TargetSentence(s, Head(ms)))>>
              ELSE <<>>)
             \o MatchResults(s, Tail(ms))

RawResults(s) ==
    MatchResults(s, FindIter(1, s, 1)) \o MatchResults(s, FindIter(2, s, 1))

\* a deduplication key that keeps the order of appearance
CitationKeyUnsorted(cit) == cit

\* utils.py:115: the key a marker is deduplicated by
CitationKey(cit) == Sorted(cit)

\* a deduplication that keeps every result
UniqueKeepAll(results, seen_citations) == results

\* utils.py:111-118: keep the first result of each key
RECURSIVE Unique(_, _)
Unique(results, seen_citations) ==
    IF Len(results) = 0 THEN <<>>
    ELSE LET citation_key == CitationKey(Head(results).cit)
         IN  IF citation_key \notin seen_citations
             THEN <<Head(results)>>
                  \o Unique(Tail(results), seen_citations \cup {citation_key})
             ELSE Unique(Tail(results), seen_citations)

\* insert r after the entries of s whose key is <= its own (stable)
RECURSIVE InsertByMin(_, _)
InsertByMin(r, s) ==
    IF Len(s) = 0 THEN <<r>>
    ELSE IF MinOf(r.cit) < MinOf(Head(s).cit) THEN <<r>> \o s
    ELSE <<Head(s)>> \o InsertByMin(r, Tail(s))

\* utils.py:120: unique_results.sort(key=lambda x: min(x[0])), a stable sort
RECURSIVE SortByMin(_)
SortByMin(s) ==
    IF Len(s) = 0 THEN <<>>
    ELSE InsertByMin(s[Len(s)], SortByMin(SubSeq(s, 1, Len(s) - 1)))

extract_citations_with_regex(s) == SortByMin(Unique(RawResults(s), {}))

----------------------------------------------------------------------------
(* utils.get_citation_markers *)

\* the pieces documents are built from:
\*   [1]  [2,3]  [3, 1]  [1, 3]  [ 1 ]  [2,2]  and the sentence end "a. "
SegPool ==
    { <<"[", "1", "]">>,
      <<"[", "2", ",", "3", "]">>,
      <<"[", "3", ",", " ", "1", "]">>,
      <<"[", "1", ",", " ", "3", "]">>,
      <<"[", " ", "1", " ", "]">>,
      <<"[", "2", ",", "2", "]">>,
      <<"a", ".", " ">> }

\* a document with eleven distinct markers, [1][2]...[11]
LongDoc ==
    <<"[", "1", "]", "[", "2", "]", "[", "3", "]", "[", "4", "]", "[", "5", "]">>
    \o <<"[", "6", "]", "[", "7", "]", "[", "8", "]", "[", "9", "]", "[", "1", "0", "]", "[", "1", "1", "]">>

\* the lines a model response is built from:
\*   [4]|t   [3,4]| u   [x]|t
LinePool ==
    { <<"[", "4", "]", "|", "t">>,
      <<"[", "3", ",", "4", "]", "|", " ", "u">>,
      <<"[", "x", "]", "|", "t">> }

\* sequences over S of length at most n
SeqsUpTo(S, n) == UNION {[1..k -> S] : k \in 0..n}

RECURSIVE Concat(_)
Concat(ss) == IF Len(ss) = 0 THEN <<>> ELSE Head(ss) \o Concat(Tail(ss))

\* utils.py:146
chunk_size == 8000

\* a document of three chunks: [2], filler text, and [3] in the last chunk
ChunkedDoc ==
    <<"[", "2", "]", " ">> \o [k \in 1..(2 * chunk_size) |-> "x"] \o <<"[", "3", "]">>

\* a document of exactly ten markers: [1]...[10]
TenDoc == SubSeq(LongDoc, 1, 31)

Documents ==
    {Concat(ss) : ss \in SeqsUpTo(SegPool, MaxSegs)} \cup {LongDoc, TenDoc, ChunkedDoc}

\* the pieces of the documents Agent.verify_citations_referenced is run on:
\*   [1]  [2,3]  [2,2]  [4]
ReferencedSegPool ==
    { <<"[", "1", "]">>,
      <<"[", "2", ",", "3", "]">>,
      <<"[", "2", ",", "2", "]">>,
      <<"[", "4", "]">> }

ReferencedDocuments == {Concat(ss) : ss \in SeqsUpTo(ReferencedSegPool, MaxSegs)}

Responses == SeqsUpTo(LinePool, MaxLines)

\* utils.py:137: more markers than this and the regex result is returned
FallbackThreshold == 10

\* len(range(0, len(content), chunk_size))
NumChunks(s) == (Len(s) + chunk_size - 1) \div chunk_size

\* re.search(r'\[([^\]]+)\]', citation_part): group 1, or <<>> when no match
\* (a match never has an empty group)
BracketGroup(s) ==
    LET Closes(i) == {j \in (i + 1)..Len(s) : s[j] = "]"}
        FirstClose(i) == CHOOSE j \in Closes(i) : \A h \in Closes(i) : j <= h
        Opens == {i \in 1..Len(s) :
                    s[i] = "[" /\ Closes(i) # {} /\ FirstClose(i) > i + 1}
    IN  IF Opens = {} THEN <<>>
        ELSE LET i == CHOOSE i \in Opens : \A h \in Opens : i <= h
             IN  SubSeq(s, i + 1, FirstClose(i) - 1)

\* a parse of a response line that drops the parts that are no integer,
\* as the regex pass does, and keeps the marker
ParseAiLineLenient(line) ==
    IF IndexOf("|", line) = 0 \/ IndexOf("[", line) = 0 THEN <<>>
    ELSE LET bar == IndexOf("|", line)
             citation_str == BracketGroup(SubSeq(line, 1, bar - 1))
         IN  IF citation_str = <<>> THEN <<>>
             ELSE <<Marker(ParseCitations(citation_str),
                           Strip(SubSeq(line, bar + 1, Len(line))))>>

\* utils.py:168-177: the marker one line of the response yields, as a
\* sequence of zero or one markers
ParseAiLine(line) ==
    IF IndexOf("|", line) = 0 \/ IndexOf("[", line) = 0 THEN <<>>
    ELSE LET bar == IndexOf("|", line)
             citation_part == SubSeq(line, 1, bar - 1)
             text_part == SubSeq(line, bar + 1, Len(line))
             citation_str == BracketGroup(citation_part)
             toks == SplitOn(",", citation_str)
         IN  IF citation_str = <<>> THEN <<>>
             ELSE IF \E k \in 1..Len(toks) : ~IntParses(toks[k]) THEN <<>>
             ELSE <<Marker([k \in 1..Len(toks) |-> IntValue(toks[k])],
                           Strip(text_part))>>

RECURSIVE ParseAiLines(_)
ParseAiLines(ls) ==
    IF Len(ls) = 0 THEN <<>>
    ELSE ParseAiLine(Head(ls)) \o ParseAiLines(Tail(ls))

\* all numbers of a list of markers
NumbersOf(ms) == UNION {Range(ms[k].cit) : k \in 1..Len(ms)}

\* a merge test that drops a fallback marker only when all its numbers exist
AdmissibleUnlessAll(cit, existing_citations) ==
    ~ \A cite \in Range(cit) : cite \in existing_citations

\* utils.py:186: a fallback marker is appended when none of its numbers is
\* in existing_citations
Admissible(cit, existing_citations) ==
    ~ \E cite \in Range(cit) : cite \in existing_citations

\* utils.py:180-188: the merge loop from index k of the fallback markers on
RECURSIVE MergeFrom(_, _, _, _, _)
MergeFrom(ai, k, combined_results, existing_citations, accepted) ==
    IF k > Len(ai)
    THEN [combined |-> combined_results, accepted |-> accepted]
    ELSE IF Admissible(ai[k].cit, existing_citations)
    THEN MergeFrom(ai, k + 1, Append(combined_results, ai[k]),
                   existing_citations \cup Range(ai[k].cit),
                   accepted \cup {k})
    ELSE MergeFrom(ai, k + 1, combined_results, existing_citations, accepted)

\* a merge whose existing_citations outlive the call: the numbers an
\* earlier call returned are still in the set
MergeKeepingExisting(regex, ai) ==
    MergeFrom(ai, 1, regex, NumbersOf(regex) \cup NumbersOf(firstResult), {})

\* utils.py:180-188: existing_citations starts from the regex markers
Merge(regex, ai) == MergeFrom(ai, 1, regex, NumbersOf(regex), {})

----------------------------------------------------------------------------
(* The extraction run: Agent.verify_citations_referenced (titles, markers, *)
(* statistics) or a caller that only asks for the markers.                 *)

\* the state before a run on document d, asked for by function c
Start(d, c) ==
    /\ IdleB
    /\ IdleL
    /\ IdleH
    /\ content = d
    /\ apiKey \in BOOLEAN
    /\ caller = c
    /\ pcE = IF c = "verify_citations_referenced" THEN "titles" ELSE "markers"
    /\ titlesN = 0
    /\ regex_results = <<>>
    /\ chunkIdx = 0
    /\ modelCalls = 0
    /\ all_ai_results = <<>>
    /\ aiAccepted = {}
    /\ via = "none"
    /\ citations_to_text = <<>>
    /\ citations = <<>>
    /\ missed_citations = {}
    /\ counter = <<>>
    /\ IdleR
    /\ IdleV
    /\ IdleS
    /\ IdleD

\* get_citation_markers called on its own (agent.py:237)
InitMarkers == \E d \in Documents : Start(d, "verify_citation_sentences")

\* Agent.verify_citations_referenced (agent.py:104)
InitReferenced == \E d \in ReferencedDocuments : Start(d, "verify_citations_referenced")

\* agent.py:106 with utils.py:225-277: the titles; an empty document has
\* none, and a missing credential raises KeyError out of the run
GetReferenceTitles ==
    /\ pcE = "titles"
    /\ \/ /\ content = <<>>
          /\ titlesN' = 0
          /\ pcE' = "markers"
       \/ /\ content # <<>> /\ apiKey
          /\ \E n \in 0..MaxTitles : titlesN' = n
          /\ pcE' = "markers"
       \/ /\ content # <<>> /\ ~apiKey
          /\ pcE' = "raised"
          /\ UNCHANGED titlesN
    /\ UNCHANGED <<varsR, varsV, varsS, varsD, varsB, varsL, varsH>>
    /\ UNCHANGED <<content, apiKey, caller, regex_results, chunkIdx,
                   modelCalls, all_ai_results, aiAccepted, via,
                   citations_to_text, citations, missed_citations, counter>>

\* utils.py:137: the regex pass found enough markers to return them as they are
EnoughMarkersAbove(results, threshold) == Len(results) > threshold + 1

EnoughMarkers(results, threshold) == Len(results) > threshold

\* os.environ["ZHIPUAI_API_KEY"] raises KeyError and nothing catches it
OnMissingKeyRaise(regex) == [pc |-> "raised", via |-> "none", value |-> <<>>]

\* utils.py:143 with 193-195: os.environ["ZHIPUAI_API_KEY"] raises KeyError
\* inside the inner try, whose handler returns the regex result
OnMissingKey(regex) == [pc |-> "returned", via |-> "nokey", value |-> regex]

\* utils.py:128-143: empty check, regex pass, threshold, client creation
PrimaryPass ==
    /\ pcE = "markers"
    /\ LET results == extract_citations_with_regex(content)
       IN  \/ /\ content = <<>>
              /\ via' = "empty"
              /\ citations_to_text' = <<>>
              /\ pcE' = "returned"
              /\ UNCHANGED regex_results
           \/ /\ content # <<>>
              /\ EnoughMarkers(results, FallbackThreshold)
              /\ regex_results' = results
              /\ via' = "primary"
              /\ citations_to_text' = results
              /\ pcE' = "returned"
           \/ /\ content # <<>>
              /\ ~EnoughMarkers(results, FallbackThreshold)
              /\ ~apiKey
              /\ regex_results' = results
              /\ via' = OnMissingKey(results).via
              /\ citations_to_text' = OnMissingKey(results).value
              /\ pcE' = OnMissingKey(results).pc
           \/ /\ content # <<>>
              /\ ~EnoughMarkers(results, FallbackThreshold)
              /\ apiKey
              /\ regex_results' = results
              /\ pcE' = "chunk"
              /\ UNCHANGED <<via, citations_to_text>>
    /\ UNCHANGED <<varsR, varsV, varsS, varsD, varsB, varsL, varsH>>
    /\ UNCHANGED <<content, apiKey, caller, titlesN, chunkIdx, modelCalls,
                   all_ai_results, aiAccepted, citations, missed_citations,
                   counter>>

\* utils.py:149-191: the model answers the next chunk; after the last chunk
\* the fallback markers are merged and the combined list is returned
ChunkAnswered(response) ==
    /\ pcE = "chunk"
    /\ LET ai == all_ai_results \o ParseAiLines(response)
           merged == Merge(regex_results, ai)
       IN  /\ all_ai_results' = ai
           /\ chunkIdx' = chunkIdx + 1
           /\ modelCalls' = modelCalls + 1
           /\ IF chunkIdx + 1 = NumChunks(content)
              THEN /\ aiAccepted' = merged.accepted
                   /\ citations_to_text' = merged.combined
                   /\ via' = "merged"
                   /\ pcE' = "returned"
              ELSE UNCHANGED <<aiAccepted, citations_to_text, via, pcE>>
    /\ UNCHANGED <<varsR, varsV, varsS, varsD, varsB, varsL, varsH>>
    /\ UNCHANGED <<content, apiKey, caller, titlesN, regex_results, citations,
                   missed_citations, counter>>

\* the model may answer anything
ChunkReturns == \E response \in Responses : ChunkAnswered(response)

\* the outer handler (utils.py:197-199) taken instead of the inner one
OnModelErrorEmpty(regex) == [pc |-> "returned", via |-> "aifail", value |-> <<>>]

\* utils.py:193-195: whatever the call or the reading of its answer raises
\* (lines 160-177), the regex result is returned
OnModelError(regex) == [pc |-> "returned", via |-> "aifail", value |-> regex]

\* utils.py:160-167 with 193-195: create() raises on the next chunk, or its
\* answer has no text (message.content is None, so .split raises)
ChunkRaises ==
    /\ pcE = "chunk"
    /\ modelCalls' = modelCalls + 1
    /\ via' = OnModelError(regex_results).via
    /\ citations_to_text' = OnModelError(regex_results).value
    /\ pcE' = OnModelError(regex_results).pc
    /\ UNCHANGED <<varsR, varsV, varsS, varsD, varsB, varsL, varsH>>
    /\ UNCHANGED <<content, apiKey, caller, titlesN, regex_results, chunkIdx,
                   all_ai_results, aiAccepted, citations, missed_citations,
                   counter>>

\* agent.py:113-115: citations.extend(citation) over the markers
RECURSIVE Flatten(_)
Flatten(ms) == IF Len(ms) = 0 THEN <<>> ELSE Head(ms).cit \o Flatten(Tail(ms))

\* range(1, len(titles)) in place of range(1, len(titles) + 1)
MissedCitationsShort(n, cits) == (1..(n - 1)) \ Range(cits)

\* agent.py:119
MissedCitations(n, cits) == (1..n) \ Range(cits)

\* agent.py:127: Counter(citations)
CounterOf(cits) == [n \in Range(cits) |-> CountIn(n, cits)]

\* "if count > 2" in place of "if count > 1"
DuplicatesAboveTwo(cnt) == {n \in DOMAIN cnt : cnt[n] > 2}

\* agent.py:129-132: the numbers reported as cited more than once
Duplicates(cnt) == {n \in DOMAIN cnt : cnt[n] > 1}

\* agent.py:109-135: the statistics of verify_citations_referenced
Reconcile ==
    /\ pcE = "returned"
    /\ caller = "verify_citations_referenced"
    /\ citations' = Flatten(citations_to_text)
    /\ missed_citations' = MissedCitations(titlesN, citations')
    /\ counter' = CounterOf(citations')
    /\ pcE' = "done"
    /\ UNCHANGED <<varsR, varsV, varsS, varsD, varsB, varsL, varsH>>
    /\ UNCHANGED <<content, apiKey, caller, titlesN, regex_results, chunkIdx,
                   modelCalls, all_ai_results, aiAccepted, via,
                   citations_to_text>>

NextMarkers == PrimaryPass \/ ChunkReturns \/ ChunkRaises

NextReferenced ==
    GetReferenceTitles \/ PrimaryPass \/ ChunkReturns \/ ChunkRaises \/ Reconcile

\* get_citation_markers on any document
Spec == InitMarkers /\ [][NextMarkers]_vars

\* Agent.verify_citations_referenced: titles, markers, statistics
SpecReferenced == InitReferenced /\ [][NextReferenced]_vars

----------------------------------------------------------------------------
(* get_citation_markers called twice on one document, the model giving the *)
(* same answer to the same prompt (temperature=0, utils.py:163). A prompt   *)
(* is the template filled with one chunk (utils.py:162), so what the model  *)
(* does is a function of the chunk.                                         *)

\* what the model may do for one prompt: raise, or answer some lines
Outcomes ==
    {[kind |-> "raises", lines |-> <<>>]}
        \cup {[kind |-> "answers", lines |-> r] : r \in Responses}

\* for a document of several chunks: raise, or answer at most one line
ShortOutcomes ==
    {o \in Outcomes : \A k \in 1..Len(o.lines) : k = 1}

\* what the model may do for the prompts of document d; without a
\* credential it is never called
Oracles(d, key) ==
    IF ~key THEN {[i \in 1..NumChunks(d) |-> [kind |-> "raises", lines |-> <<>>]]}
    ELSE IF NumChunks(d) = 1 THEN [1..1 -> Outcomes]
    ELSE [1..NumChunks(d) -> ShortOutcomes]

\* the documents called twice: the shorter ones of the reference check and
\* the two long ones
RepeatedDocuments ==
    {d \in ReferencedDocuments : \E ss \in SeqsUpTo(ReferencedSegPool, MaxSegs - 1) :
                                     d = Concat(ss)}
        \cup {LongDoc, ChunkedDoc}

InitRepeated ==
    /\ IdleR /\ IdleV /\ IdleS /\ IdleD /\ IdleB /\ IdleL
    /\ content \in RepeatedDocuments
    /\ apiKey \in BOOLEAN
    /\ oracle \in Oracles(content, apiKey)
    /\ run = 1
    /\ firstResult = <<>>
    /\ caller = "verify_citation_sentences"
    /\ pcE = "markers"
    /\ titlesN = 0
    /\ regex_results = <<>>
    /\ chunkIdx = 0
    /\ modelCalls = 0
    /\ all_ai_results = <<>>
    /\ aiAccepted = {}
    /\ via = "none"
    /\ citations_to_text = <<>>
    /\ citations = <<>>
    /\ missed_citations = {}
    /\ counter = <<>>

\* utils.py:160-177: the model answers the prompt of the next chunk
ModelAnswers ==
    /\ pcE = "chunk"
    /\ oracle[chunkIdx + 1].kind = "answers"
    /\ ChunkAnswered(oracle[chunkIdx + 1].lines)

\* utils.py:160 with 193-195: the model raises on the prompt of the next chunk
ModelRaises ==
    /\ pcE = "chunk"
    /\ oracle[chunkIdx + 1].kind = "raises"
    /\ ChunkRaises

\* the second call: every name of get_citation_markers and of
\* extract_citations_with_regex is local and bound anew (utils.py:65, 75,
\* 110-111, 147, 180-181); nothing at module level is written
CallAgain ==
    /\ pcE = "returned"
    /\ run = 1
    /\ run' = 2
    /\ firstResult' = citations_to_text
    /\ pcE' = "markers"
    /\ regex_results' = <<>>
    /\ chunkIdx' = 0
    /\ modelCalls' = 0
    /\ all_ai_results' = <<>>
    /\ aiAccepted' = {}
    /\ via' = "none"
    /\ citations_to_text' = <<>>
    /\ UNCHANGED <<content, apiKey, caller, titlesN, citations,
                   missed_citations, counter, oracle>>
    /\ UNCHANGED <<varsR, varsV, varsS, varsD, varsB, varsL>>

NextRepeated == PrimaryPass \/ ModelAnswers \/ ModelRaises \/ CallAgain

\* two calls of get_citation_markers on the same document
SpecRepeated == InitRepeated /\ [][NextRepeated]_vars

----------------------------------------------------------------------------
(* app.py is_similar / clean_title_for_comparison (also agent.py:40-76 and *)
(* 1.py:26-47). A similarity is the fraction <<n, d>> in lowest terms; the *)
(* floats of the source are quotients of small integers, for which float   *)
(* comparison and comparison of the fractions agree.                       *)

UpperCase == <<"A", "B", "C", "D", "E", "F", "G", "H", "I", "J", "K", "L", "M",
               "N", "O", "P", "Q", "R", "S", "T", "U", "V", "W", "X", "Y", "Z">>

LowerCase == <<"a", "b", "c", "d", "e", "f", "g", "h", "i", "j", "k", "l", "m",
               "n", "o", "p", "q", "r", "s", "t", "u", "v", "w", "x", "y", "z">>

LowerChar(c) ==
    IF \E k \in 1..26 : UpperCase[k] = c
    THEN LowerCase[CHOOSE k \in 1..26 : UpperCase[k] = c]
    ELSE c

\* str.lower()
Lower(s) == [k \in 1..Len(s) |-> LowerChar(s[k])]

\* \w of the re module
IsWordChar(c) ==
    \/ \E k \in 1..26 : UpperCase[k] = c \/ LowerCase[k] = c
    \/ IsDigit(c)
    \/ c = "_"

\* re.sub(r'\s+', ' ', s)
RECURSIVE CollapseSpaces(_)
CollapseSpaces(s) ==
    IF Len(s) = 0 THEN <<>>
    ELSE IF IsSpace(s[1])
    THEN <<" ">> \o CollapseSpaces(SubSeq(s, SkipSpaces(s, 1), Len(s)))
    ELSE <<s[1]>> \o CollapseSpaces(Tail(s))

\* app.py:25-30
clean_title_for_comparison(title) ==
    Strip(CollapseSpaces([k \in 1..Len(title) |->
                             IF IsWordChar(title[k]) \/ IsSpace(title[k])
                             THEN LowerChar(title[k]) ELSE " "]))

\* str.split(): the maximal runs of non-whitespace
RECURSIVE Words(_)
Words(s) ==
    LET a == SkipSpaces(s, 1)
        spaces == {k \in a..Len(s) : IsSpace(s[k])}
        e == IF spaces = {} THEN Len(s) + 1
             ELSE CHOOSE k \in spaces : \A h \in spaces : k <= h
    IN  IF a > Len(s) THEN <<>>
        ELSE <<SubSeq(s, a, e - 1)>> \o Words(SubSeq(s, e, Len(s)))

\* length of the longest common prefix of a[i..ahi] and b[j..bhi]
RECURSIVE CommonLen(_, _, _, _, _, _)
CommonLen(a, i, ahi, b, j, bhi) ==
    IF i <= ahi /\ j <= bhi /\ a[i] = b[j]
    THEN 1 + CommonLen(a, i + 1, ahi, b, j + 1, bhi)
    ELSE 0

\* the greatest of the lengths CommonLen gives from the start pairs
MaxCommonLen(a, ahi, b, bhi, starts) ==
    IF starts = {} THEN 0
    ELSE LET q == CHOOSE q \in starts :
                     \A r \in starts : CommonLen(a, q[1], ahi, b, q[2], bhi)
                                         >= CommonLen(a, r[1], ahi, b, r[2], bhi)
         IN  CommonLen(a, q[1], ahi, b, q[2], bhi)

\* of the start pairs, the one earliest in a and, of those, earliest in b
EarliestStart(starts) ==
    CHOOSE q \in starts : \A r \in starts : q[1] < r[1] \/ (q[1] = r[1] /\ q[2] <= r[2])

\* the block of length k > 0 that starts earliest
BlockOfLength(a, alo, ahi, b, blo, bhi, k) ==
    LET first == EarliestStart({q \in (alo..ahi) \X (blo..bhi) :
                                   CommonLen(a, q[1], ahi, b, q[2], bhi) = k})
    IN  [i |-> first[1], j |-> first[2], k |-> k]

\* the longest block, given its length
LongestOfLength(a, alo, ahi, b, blo, bhi, k) ==
    IF k = 0 THEN [i |-> alo, j |-> blo, k |-> 0]
    ELSE BlockOfLength(a, alo, ahi, b, blo, bhi, k)

\* SequenceMatcher.find_longest_match(alo, ahi, blo, bhi) without junk: the
\* longest block a[i..i+k-1] = b[j..j+k-1]; of the longest, the one that
\* starts earliest in a, and of those the one that starts earliest in b
LongestMatch(a, alo, ahi, b, blo, bhi) ==
    LongestOfLength(a, alo, ahi, b, blo, bhi,
                    MaxCommonLen(a, ahi, b, bhi, (alo..ahi) \X (blo..bhi)))

RECURSIVE MatchCount(_, _, _, _, _, _)

\* the matches in the block m and to the left and to the right of it
MatchCountAround(a, alo, ahi, b, blo, bhi, m) ==
    IF m.k = 0 THEN 0
    ELSE m.k + MatchCount(a, alo, m.i - 1, b, blo, m.j - 1)
             + MatchCount(a, m.i + m.k, ahi, b, m.j + m.k, bhi)

\* the total size of SequenceMatcher.get_matching_blocks() on the two ranges
MatchCount(a, alo, ahi, b, blo, bhi) ==
    IF alo > ahi \/ blo > bhi THEN 0
    ELSE MatchCountAround(a, alo, ahi, b, blo, bhi,
                          LongestMatch(a, alo, ahi, b, blo, bhi))

RECURSIVE Gcd(_, _)
Gcd(x, y) == IF y = 0 THEN x ELSE Gcd(y, x % y)

\* the fraction n/d in lowest terms
Frac(n, d) == IF n = 0 THEN <<0, 1>> ELSE <<n \div Gcd(n, d), d \div Gcd(n, d)>>

FracGreater(x, y) == x[1] * y[2] > y[1] * x[2]

FracMax(x, y) == IF FracGreater(y, x) THEN y ELSE x

\* SequenceMatcher(None, a, b).ratio(): 2.0 * matches / (len(a) + len(b)),
\* and 1.0 for two empty strings
Ratio(a, b) ==
    IF Len(a) + Len(b) = 0 THEN <<1, 1>>
    ELSE Frac(2 * MatchCount(a, 1, Len(a), b, 1, Len(b)), Len(a) + Len(b))

\* app.py:38-45: the word overlap of the cleaned titles
WordSetOverlap(words1, words2) ==
    IF Cardinality(words1) > 0 /\ Cardinality(words2) > 0
    THEN Frac(Cardinality(words1 \cap words2), Cardinality(words1 \cup words2))
    ELSE <<0, 1>>

\* app.py:41-42: the word sets of the cleaned titles
WordOverlap(clean_title1, clean_title2) ==
    WordSetOverlap(Range(Words(clean_title1)), Range(Words(clean_title2)))

\* app.py:39 and 41-46: similarity2 and word_overlap of the cleaned titles
CleanSimilarity(clean_title1, clean_title2) ==
    FracMax(Ratio(clean_title1, clean_title2), WordOverlap(clean_title1, clean_title2))

FracMin(x, y) == IF FracGreater(y, x) THEN x ELSE y

\* the least of the three scores in place of the greatest
MinSimilarity(title1, title2) ==
    FracMin(Ratio(Lower(title1), Lower(title2)),
            FracMin(Ratio(clean_title_for_comparison(title1),
                          clean_title_for_comparison(title2)),
                    WordOverlap(clean_title_for_comparison(title1),
                                clean_title_for_comparison(title2))))

\* app.py:34-47: max_similarity
MaxSimilarity(title1, title2) ==
    FracMax(Ratio(Lower(title1), Lower(title2)),
            CleanSimilarity(clean_title_for_comparison(title1),
                            clean_title_for_comparison(title2)))

\* the default threshold of is_similar, 0.8 (app.py:32)
DefaultThreshold == <<4, 5>>

\* "max_similarity >= threshold" in place of "max_similarity > threshold"
is_similar_or_equal(title1, title2, threshold) ==
    ~FracGreater(threshold, MaxSimilarity(title1, title2))

\* app.py:47: max_similarity > threshold
is_similar(title1, title2, threshold) ==
    FracGreater(MaxSimilarity(title1, title2), threshold)

----------------------------------------------------------------------------
(* The arXiv title loop of verify_citations_and_analyze_with_logs          *)
(* (app.py:133-191, the same loop as 1.py:120-178). A search result is     *)
(* modelled by its title; the authors and the abstract that the loop       *)
(* copies into the record do not influence control.                        *)

\* the extraction run is not part of the behaviour
IdleE ==
    /\ content = <<>>
    /\ apiKey = TRUE
    /\ caller = "none"
    /\ pcE = "idle"
    /\ titlesN = 0
    /\ regex_results = <<>>
    /\ chunkIdx = 0
    /\ modelCalls = 0
    /\ all_ai_results = <<>>
    /\ aiAccepted = {}
    /\ via = "none"
    /\ citations_to_text = <<>>
    /\ citations = <<>>
    /\ missed_citations = {}
    /\ counter = <<>>

MaxRefs == 2

MaxResults == 3

Chars(str) ==
    CASE str = "ab cd" -> <<"a", "b", " ", "c", "d">>
      [] str = "AB-cd" -> <<"A", "B", "-", "c", "d">>
      [] str = "ab c" -> <<"a", "b", " ", "c">>
      [] str = "ab cx" -> <<"a", "b", " ", "c", "x">>
      [] str = "xyz" -> <<"x", "y", "z">>
      [] str = "cd ab" -> <<"c", "d", " ", "a", "b">>

\* reference titles of the documents
TitlePool == {"ab cd", "AB-cd"}

\* titles of the papers the provider may return; "ab cx" scores exactly 0.8
\* against "ab cd", which is not above the threshold
ResultPool == {"ab cd", "ab c", "ab cx"}

\* messages of the exceptions search_from_arxiv may raise
ErrorPool == {"HTTP 503", "timed out"}

\* is_similar(result.title, title) for the titles of the pools
Similarity ==
    [r \in ResultPool, t \in TitlePool |-> MaxSimilarity(Chars(r), Chars(t))]

\* a match at the threshold itself
IsMatchAtThreshold(result, title) ==
    ~FracGreater(DefaultThreshold, Similarity[result, title])

\* app.py:150-153: is_match
IsMatch(result, title) == FracGreater(Similarity[result, title], DefaultThreshold)

\* an alternative loop that looks at every result and keeps the best match
RECURSIVE ScanBest(_, _, _)
ScanBest(search_results, title, j) ==
    LET rest == IF j < Len(search_results)
                THEN ScanBest(search_results, title, j + 1)
                ELSE [found_match |-> FALSE, j |-> 0, examined |-> Len(search_results)]
    IN  IF j > Len(search_results) THEN [found_match |-> FALSE, j |-> 0, examined |-> 0]
        ELSE IF ~IsMatch(search_results[j], title) THEN rest
        ELSE IF rest.found_match
                /\ FracGreater(Similarity[search_results[rest.j], title],
                               Similarity[search_results[j], title])
        THEN rest
        ELSE [found_match |-> TRUE, j |-> j, examined |-> Len(search_results)]

\* app.py:148-166: the loop over the search results from position j on; it
\* leaves at the first match
RECURSIVE Scan(_, _, _)
Scan(search_results, title, j) ==
    IF j > Len(search_results)
    THEN [found_match |-> FALSE, j |-> 0, examined |-> Len(search_results)]
    ELSE IF IsMatch(search_results[j], title)
    THEN [found_match |-> TRUE, j |-> j, examined |-> j]
    ELSE Scan(search_results, title, j + 1)

\* app.py:155-162
FoundRecord(i, title, result) ==
    [index |-> i, title |-> title, arxiv_title |-> result,
     similarity |-> Similarity[result, title]]

\* app.py:170-173
NotFoundRecord(i, title) == [index |-> i, title |-> title]

\* an alternative handler that lets the exception leave the loop
OnSearchErrorRaise(i, title, e, not_found) ==
    [pc |-> "aborted", arxiv_not_found |-> not_found]

\* app.py:175-181: except Exception as e
OnSearchError(i, title, e, not_found) ==
    [pc |-> "loop",
     arxiv_not_found |-> Append(not_found, [index |-> i, title |-> title, error |-> e])]

\* where the for statement of app.py:136 goes after iteration i
AfterTitle(i) == IF i = Len(titles) THEN "done" ELSE "loop"

InitResolve ==
    /\ IdleB
    /\ IdleL
    /\ IdleH
    /\ IdleE
    /\ IdleV
    /\ IdleS
    /\ IdleD
    /\ titles \in SeqsUpTo(TitlePool, MaxRefs)
    /\ titleIdx = 0
    /\ search = [raised |-> FALSE, results |-> <<>>]
    /\ examined = 0
    /\ arxiv_found = <<>>
    /\ arxiv_not_found = <<>>
    /\ pcR = AfterTitle(0)

\* app.py:140-173: one iteration in which search_from_arxiv returns
SearchReturns ==
    /\ pcR = "loop"
    /\ \E search_results \in SeqsUpTo(ResultPool, MaxResults) :
          LET i == titleIdx + 1
              title == titles[i]
              scan == Scan(search_results, title, 1)
          IN  /\ search' = [raised |-> FALSE, results |-> search_results]
              /\ examined' = scan.examined
              /\ IF scan.found_match
                 THEN /\ arxiv_found' =
                             Append(arxiv_found, FoundRecord(i, title, search_results[scan.j]))
                      /\ UNCHANGED arxiv_not_found
                 ELSE /\ arxiv_not_found' = Append(arxiv_not_found, NotFoundRecord(i, title))
                      /\ UNCHANGED arxiv_found
              /\ titleIdx' = i
              /\ pcR' = AfterTitle(i)
    /\ UNCHANGED titles
    /\ UNCHANGED <<varsE, varsV, varsS, varsD, varsB, varsL, varsH>>

\* app.py:142 and 175-181: one iteration in which search_from_arxiv raises
SearchRaises ==
    /\ pcR = "loop"
    /\ \E e \in ErrorPool :
          LET i == titleIdx + 1
              handled == OnSearchError(i, titles[i], e, arxiv_not_found)
          IN  /\ search' = [raised |-> TRUE, results |-> <<>>, error |-> e]
              /\ examined' = 0
              /\ arxiv_not_found' = handled.arxiv_not_found
              /\ titleIdx' = i
              /\ pcR' = IF handled.pc = "loop" THEN AfterTitle(i) ELSE handled.pc
    /\ UNCHANGED <<titles, arxiv_found>>
    /\ UNCHANGED <<varsE, varsV, varsS, varsD, varsB, varsL, varsH>>

NextResolve == SearchReturns \/ SearchRaises

SpecResolve == InitResolve /\ [][NextResolve]_vars

----------------------------------------------------------------------------
(* The verification loops: utils.batch_verify_citations_lightweight with   *)
(* the statistics of Agent.verify_citation_sentences_lightweight ("light"),*)
(* the PDF loop of app.py:240-327 ("app_heavy") and                        *)
(* Agent.verify_citation_sentences ("agent_heavy").                        *)
(* The two CJK characters of the verdict tokens are written by their code  *)
(* points; the messages the source writes in Chinese are given in English. *)

MaxMarkers == 2

\* the character U+662F of the token '<U+662F>' (yes)
SHI == "U+662F"

\* the character U+5426 (no)
FOU == "U+5426"

YesToken == <<"<", SHI, ">">>

NoChar == <<FOU>>

\* message.content when the model returns no text: a value that is not a
\* sequence of characters
None == <<"None">>

\* best_match = None (utils.py:341)
NoRecord == "None"

\* values the model call may return: yes, no with a reason, a text that holds
\* both tokens, a text that holds neither, and no text at all
ResponsePool ==
    { YesToken,
      <<"<", FOU, ":", " ", "x", ">">>,
      <<"<", SHI, ">", FOU>>,
      <<"m", "a", "y", "b", "e">>,
      None }

\* the citations of the markers
CitationPool == {<<1>>, <<2>>, <<2, 1>>, <<1, 3>>}

\* the title list of a document with n references
ReferenceTitles(n) == [k \in 1..n |-> IF k % 2 = 1 THEN "ab cd" ELSE "AB-cd"]

\* titles of the records get_arxiv_metadata_only may return for one query
MetadataPool == {<<>>, <<"xyz">>, <<"ab c", "ab cd">>}

\* outcomes of one metadata search
SearchOutcomes == {[raised |-> TRUE]} \cup
                  {[raised |-> FALSE, metadata_results |-> m] : m \in MetadataPool}

\* outcomes of one model call
ModelOutcomes == {[raised |-> TRUE, error |-> "model error"]} \cup
                 {[raised |-> FALSE, content |-> r] : r \in ResponsePool}

\* outcomes of load_pdf: it raises, or returns the text of the files, which
\* may hold nothing but whitespace
LoadOutcomes == {[raised |-> TRUE, error |-> "pdf error"],
                 [raised |-> FALSE, references |-> <<" ">>],
                 [raised |-> FALSE, references |-> <<"t">>]}

\* utils.py:344: SequenceMatcher(None, title.lower(), metadata['title'].lower()).ratio()
TitleRatio ==
    [t \in TitlePool, m \in {"xyz", "ab c", "ab cd", "cd ab"} |->
        Ratio(Lower(Chars(t)), Lower(Chars(m)))]

\* utils.py:340-347: the best match among the records from position k on,
\* given the best so far
RECURSIVE BestMatch(_, _, _, _, _)

\* utils.py:344-347: the step of the loop for record k, whose ratio is similarity
BestMatchStep(title, metadata_results, k, best_match, best_similarity, similarity) ==
    IF FracGreater(similarity, best_similarity) /\ FracGreater(similarity, <<3, 5>>)
    THEN BestMatch(title, metadata_results, k + 1, metadata_results[k], similarity)
    ELSE BestMatch(title, metadata_results, k + 1, best_match, best_similarity)

BestMatch(title, metadata_results, k, best_match, best_similarity) ==
    IF k > Len(metadata_results) THEN best_match
    ELSE BestMatchStep(title, metadata_results, k, best_match, best_similarity,
                       TitleRatio[title, metadata_results[k]])

\* a variant that keeps no title as soon as one cited number is out of range
cited_titles_all_or_nothing(citation, reference_titles) ==
    IF \A k \in 1..Len(citation) : 1 <= citation[k] /\ citation[k] <= Len(reference_titles)
    THEN [k \in 1..Len(citation) |-> reference_titles[citation[k]]]
    ELSE <<>>

\* utils.py:325: [titles[i-1] for i in citation if 1 <= i <= len(titles)]
RECURSIVE cited_titles(_, _)
cited_titles(citation, reference_titles) ==
    IF Len(citation) = 0 THEN <<>>
    ELSE (IF 1 <= Head(citation) /\ Head(citation) <= Len(reference_titles)
          THEN <<reference_titles[Head(citation)]>> ELSE <<>>)
         \o cited_titles(Tail(citation), reference_titles)

\* utils.py:336-359: the metadata kept for the cited titles, given what each
\* search did; a search that raises, returns nothing or has no record above
\* 0.6 contributes nothing
\* utils.py:349-350: if best_match: paper_metadata_list.append(best_match)
Kept(best_match) == IF best_match = NoRecord THEN <<>> ELSE <<best_match>>

RECURSIVE paper_metadata_list(_, _, _)
paper_metadata_list(cited, searched, k) ==
    IF k > Len(cited) THEN <<>>
    ELSE Kept(IF searched[k].raised THEN NoRecord
              ELSE BestMatch(cited[k], searched[k].metadata_results, 1, NoRecord, <<0, 1>>))
         \o paper_metadata_list(cited, searched, k + 1)

\* a variant of the handler that reports the failed marker as skipped
ErrorRecordSkipped(citation, e) ==
    [citation |-> citation, status |-> "skipped", reason |-> e]

\* utils.py:402-407 and app.py:297-303: except Exception as e
ErrorRecord(citation, e) ==
    [citation |-> citation, status |-> "error", reason |-> e]

\* utils.py:328-332, 362-366 and app.py:247-251, 263-267
SkippedRecord(citation, reason) ==
    [citation |-> citation, status |-> "skipped", reason |-> reason]

\* the Python test  sub in value, which raises TypeError when value is None
InRaises(value) == value = None

\* app.py:289-295 (and 221-226, 425-427): if '<U+662F>' in result ... elif
\* U+5426 in result ... else
LogVerdict(result) ==
    IF Contains(YesToken, result) THEN "consistent"
    ELSE IF Contains(NoChar, result) THEN "inconsistent"
    ELSE "ambiguous"

\* agent.py:274-280: if "<U+662F>" == response ... elif U+5426 in response ... else
AgentVerdict(response) ==
    IF response = YesToken THEN "consistent"
    ELSE IF Contains(NoChar, response) THEN "inconsistent"
    ELSE "ambiguous"

\* where a verification loop goes after marker k
AfterMarker(k) == IF k = Len(markers) THEN "stats" ELSE "loop"

\* utils.py:327-407: the outcome for a citation, given the titles it cites,
\* the metadata kept for them and what the searches and the model call do
LightOutcome(citation, cited, kept, calls, called) ==
    IF Len(cited) = 0
    THEN [records |-> <<SkippedRecord(citation, "citation number out of range")>>,
          calls |-> [NoCalls EXCEPT !.outcome = "skipped"],
          returned |-> <<>>]
    ELSE IF Len(kept) = 0
    THEN [records |-> <<SkippedRecord(citation, "no metadata for the cited references")>>,
          calls |-> [calls EXCEPT !.outcome = "skipped"],
          returned |-> <<>>]
    ELSE IF called.raised
    THEN [records |-> <<ErrorRecord(citation, called.error)>>,
          calls |-> [calls EXCEPT !.model = "raised", !.outcome = "error"],
          returned |-> <<>>]
    ELSE [records |-> <<[citation |-> citation, status |-> "verified",
                         result |-> called.content, metadata_count |-> Len(kept)]>>,
          calls |-> [calls EXCEPT !.model = "returned", !.outcome = "verified"],
          returned |-> <<called.content>>]

\* utils.py:336-359: the searches made for the cited titles
SearchCalls(cited, searched) ==
    [NoCalls EXCEPT !.searches = Len(cited),
                    !.search_raised = \E k \in 1..Len(cited) : searched[k].raised]

\* utils.py:325-367: the evidence for a citation that cites the given titles
LightEvidence(citation, cited, searched, called) ==
    LightOutcome(citation, cited, paper_metadata_list(cited, searched, 1),
                 SearchCalls(cited, searched), called)

\* the outcome of one iteration of utils.py:323-407 for a citation, given
\* what the searches and the model call do
LightIteration(citation, searched, called) ==
    LightEvidence(citation, cited_titles(citation, titles), searched, called)

\* what an iteration leaves behind: the records it appends, what it called
\* and what the model returned to it
Recorded(it) ==
    /\ verification_results' = verification_results \o it.records
    /\ last' = it.calls
    /\ responses' = responses \o it.returned

\* utils.py:323-407: one iteration of batch_verify_citations_lightweight
VerifyLight ==
    /\ pcV = "loop"
    /\ mode = "light"
    /\ \E searched \in [1..Len(cited_titles(markers[markerIdx + 1], titles)) -> SearchOutcomes],
          called \in ModelOutcomes :
             Recorded(LightIteration(markers[markerIdx + 1], searched, called))
    /\ markerIdx' = markerIdx + 1
    /\ pcV' = AfterMarker(markerIdx + 1)
    /\ UNCHANGED <<mode, ref_names, markers, checked_count, bad_count, skipped_count, stats>>
    /\ UNCHANGED <<varsE, varsR, varsS, varsD, varsB, varsL, varsH>>

\* a loop that does not look for the files before it loads them
missing_refs_unchecked(citation, names) == {}

\* agent.py:244 and app.py:244: set(citation) - set(ref_names)
missing_refs(citation, names) == Range(citation) \ names

\* the outcome of one iteration of app.py:240-303 for a citation, given what
\* load_pdf and the model call do; records holds what the iteration appends
\* to verification_results
AppHeavyIteration(citation, loaded, called) ==
        IF missing_refs(citation, ref_names) # {}
        THEN [records |-> <<SkippedRecord(citation, "PDF file missing")>>,
              calls |-> [NoCalls EXCEPT !.outcome = "skipped"],
              returned |-> <<>>]
        ELSE IF loaded.raised
        THEN [records |-> <<ErrorRecord(citation, loaded.error)>>,
              calls |-> [NoCalls EXCEPT !.load = "raised", !.outcome = "error"],
              returned |-> <<>>]
        ELSE IF Strip(loaded.references) = <<>>
        THEN [records |-> <<SkippedRecord(citation, "PDF content empty")>>,
              calls |-> [NoCalls EXCEPT !.load = "empty", !.outcome = "skipped"],
              returned |-> <<>>]
        ELSE IF called.raised
        THEN [records |-> <<ErrorRecord(citation, called.error)>>,
              calls |-> [NoCalls EXCEPT !.load = "text", !.model = "raised",
                                        !.outcome = "error"],
              returned |-> <<>>]
        ELSE LET verified == [citation |-> citation, status |-> "verified",
                              result |-> called.content]
             IN  IF InRaises(called.content)
                 THEN \* app.py:289 raises TypeError after the append of 283-287
                      [records |-> <<verified, ErrorRecord(citation, "TypeError")>>,
                       calls |-> [NoCalls EXCEPT !.load = "text", !.model = "returned",
                                                 !.outcome = "error"],
                       returned |-> <<called.content>>]
                 ELSE [records |-> <<verified>>,
                       calls |-> [NoCalls EXCEPT !.load = "text", !.model = "returned",
                                                 !.verdict = LogVerdict(called.content),
                                                 !.outcome = "verified"],
                       returned |-> <<called.content>>]

\* app.py:240-307: one iteration of the PDF loop
VerifyAppHeavy ==
    /\ pcV = "loop"
    /\ mode = "app_heavy"
    /\ \E loaded \in LoadOutcomes, called \in ModelOutcomes :
          Recorded(AppHeavyIteration(markers[markerIdx + 1], loaded, called))
    /\ markerIdx' = markerIdx + 1
    /\ pcV' = AfterMarker(markerIdx + 1)
    /\ UNCHANGED <<mode, ref_names, markers, checked_count, bad_count, skipped_count, stats>>
    /\ UNCHANGED <<varsE, varsR, varsS, varsD, varsB, varsL, varsH>>

\* the changes one iteration of agent.py:240-285 makes to the counters, given
\* whether a listed file is gone when path.exists() looks for it and what
\* load_pdf and the model call do
AgentHeavyIteration(citation, vanished, loaded, called) ==
    LET Skip(calls) == [checked |-> 0, bad |-> 0, skipped |-> 1,
                        calls |-> [calls EXCEPT !.outcome = "skipped"], returned |-> <<>>]
    IN  IF missing_refs(citation, ref_names) # {} THEN Skip(NoCalls)
        ELSE IF vanished THEN Skip(NoCalls)
        ELSE IF loaded.raised THEN Skip([NoCalls EXCEPT !.load = "raised"])
        ELSE IF Strip(loaded.references) = <<>> THEN Skip([NoCalls EXCEPT !.load = "empty"])
        ELSE IF called.raised
        THEN Skip([NoCalls EXCEPT !.load = "text", !.model = "raised"])
        ELSE LET response == called.content
                 calls == [NoCalls EXCEPT !.load = "text", !.model = "returned"]
             IN  IF response # YesToken /\ InRaises(response)
                 THEN \* agent.py:276 raises TypeError after checked_count += 1
                      [checked |-> 1, bad |-> 0, skipped |-> 1,
                       calls |-> [calls EXCEPT !.outcome = "skipped"],
                       returned |-> <<response>>]
                 ELSE [checked |-> 1,
                       bad |-> IF AgentVerdict(response) = "inconsistent" THEN 1 ELSE 0,
                       skipped |-> 0,
                       calls |-> [calls EXCEPT !.verdict = AgentVerdict(response),
                                               !.outcome = "checked"],
                       returned |-> <<response>>]

\* what an iteration of agent.py:240-285 leaves behind
Counted(it) ==
    /\ checked_count' = checked_count + it.checked
    /\ bad_count' = bad_count + it.bad
    /\ skipped_count' = skipped_count + it.skipped
    /\ last' = it.calls
    /\ responses' = responses \o it.returned

\* agent.py:240-285: one iteration of Agent.verify_citation_sentences
VerifyAgentHeavy ==
    /\ pcV = "loop"
    /\ mode = "agent_heavy"
    /\ \E vanished \in BOOLEAN, loaded \in LoadOutcomes, called \in ModelOutcomes :
          Counted(AgentHeavyIteration(markers[markerIdx + 1], vanished, loaded, called))
    /\ markerIdx' = markerIdx + 1
    /\ pcV' = AfterMarker(markerIdx + 1)
    /\ UNCHANGED <<mode, ref_names, markers, verification_results, stats>>
    /\ UNCHANGED <<varsE, varsR, varsS, varsD, varsB, varsL, varsH>>

\* the value of accuracy_rate / 100 when the guarded division is not done
NoRatio == <<>>

\* number of records r of results with the given status
StatusCount(results, status) ==
    Cardinality({k \in 1..Len(results) : results[k].status = status})

\* sum(1 for r in results if r['status'] == 'verified' and token in r.get('result', ''))
TokenCount(results, token) ==
    Cardinality({k \in 1..Len(results) :
                    results[k].status = "verified" /\ Contains(token, results[k].result)})

\* whether a test  token in r.get('result', '')  of the statistics raises
StatsRaise(results) ==
    \E k \in 1..Len(results) : results[k].status = "verified" /\ InRaises(results[k].result)

\* agent.py:331-333 and app.py:325-327: correct_count / verified_count
Accuracy(correct_count, incorrect_count, verified_count) ==
    IF verified_count > 0 THEN Frac(correct_count, verified_count) ELSE NoRatio

\* agent.py:319-333 and app.py:312-327
RecordStatistics(results) ==
    LET verified_count == StatusCount(results, "verified")
        correct_count == TokenCount(results, YesToken)
        incorrect_count == TokenCount(results, NoChar)
    IN  [computed |-> TRUE,
         verified_count |-> verified_count,
         correct_count |-> correct_count,
         incorrect_count |-> incorrect_count,
         skipped_count |-> StatusCount(results, "skipped"),
         error_count |-> StatusCount(results, "error"),
         accuracy_rate |-> Accuracy(correct_count, incorrect_count, verified_count)]

\* app.py:422-436, format_verification_results: the citations listed as
\* correct (which = "consistent") or as needing a check (which = "inconsistent")
RECURSIVE Formatted(_, _)
Formatted(results, which) ==
    IF Len(results) = 0 THEN <<>>
    ELSE (IF Head(results).status = "verified" /\ LogVerdict(Head(results).result) = which
          THEN <<Head(results).citation>> ELSE <<>>)
         \o Formatted(Tail(results), which)

\* agent.py:287-297
CounterStatistics ==
    [computed |-> TRUE,
     checked_count |-> checked_count,
     skipped_count |-> skipped_count,
     bad_count |-> bad_count,
     correct_count |-> checked_count - bad_count,
     accuracy_rate |-> IF checked_count > 0
                       THEN Frac(checked_count - bad_count, checked_count)
                       ELSE NoRatio]

\* the statistics after the loop: agent.py:319-333 ("light"), app.py:312-327
\* with format_verification_results ("app_heavy"), agent.py:287-297
\* ("agent_heavy"); a result that is no text makes the counting raise TypeError
Statistics ==
    /\ pcV = "stats"
    /\ IF mode = "agent_heavy"
       THEN stats' = CounterStatistics /\ pcV' = "done"
       ELSE IF StatsRaise(verification_results)
       THEN pcV' = "raised" /\ UNCHANGED stats
       ELSE /\ pcV' = "done"
            /\ stats' = IF mode = "light"
                        THEN RecordStatistics(verification_results)
                        ELSE [verified_correct |-> Formatted(verification_results, "consistent"),
                              verified_incorrect |->
                                  Formatted(verification_results, "inconsistent")]
                             @@ RecordStatistics(verification_results)
    /\ UNCHANGED <<mode, ref_names, markers, markerIdx, verification_results,
                   checked_count, bad_count, skipped_count, responses, last>>
    /\ UNCHANGED <<varsE, varsR, varsS, varsD, varsB, varsL, varsH>>

\* numbers of the PDF files in the reference folder
FolderPool == {{}, {1}, {1, 3}}

InitVerify ==
    /\ IdleB
    /\ IdleL
    /\ IdleH
    /\ IdleE
    /\ IdleS
    /\ IdleD
    /\ mode \in {"light", "app_heavy", "agent_heavy"}
    /\ \/ mode = "light" /\ ref_names = {} /\ \E n \in 0..MaxRefs : titles = ReferenceTitles(n)
       \/ mode # "light" /\ ref_names \in FolderPool /\ titles = <<>>
    /\ titleIdx = 0
    /\ search = [raised |-> FALSE, results |-> <<>>]
    /\ examined = 0
    /\ arxiv_found = <<>>
    /\ arxiv_not_found = <<>>
    /\ pcR = "idle"
    /\ markers \in SeqsUpTo(CitationPool, MaxMarkers)
    /\ markerIdx = 0
    /\ verification_results = <<>>
    /\ checked_count = 0
    /\ bad_count = 0
    /\ skipped_count = 0
    /\ responses = <<>>
    /\ last = NoCalls
    /\ stats = [computed |-> FALSE]
    /\ pcV = AfterMarker(0)

NextVerify == VerifyLight \/ VerifyAppHeavy \/ VerifyAgentHeavy \/ Statistics

SpecVerify == InitVerify /\ [][NextVerify]_vars

----------------------------------------------------------------------------
(* The choice of the metadata record for one cited title                   *)
(* (utils.py:337-357, inside batch_verify_citations_lightweight).          *)

\* titles of the records get_arxiv_metadata_only may return
MetadataTitles == {"xyz", "ab c", "ab cd", "cd ab"}

InitSelect ==
    /\ IdleE
    /\ IdleR
    /\ IdleV
    /\ IdleS
    /\ IdleD
    /\ IdleL
    /\ IdleH
    /\ selTitle \in TitlePool
    /\ fetched \in SeqsUpTo(MetadataTitles, MaxResults)
    /\ chosen = "none"
    /\ pcB = "fetched"

\* utils.py:340-350: the loop over metadata_results leaves best_match
ChooseBestMatch ==
    /\ pcB = "fetched"
    /\ chosen' = BestMatch(selTitle, fetched, 1, NoRecord, <<0, 1>>)
    /\ pcB' = "chosen"
    /\ UNCHANGED <<selTitle, fetched>>
    /\ UNCHANGED <<varsE, varsR, varsV, varsS, varsD, varsL, varsH>>

NextSelect == ChooseBestMatch

\* the choice among any records fetched for a title
SpecSelect == InitSelect /\ [][NextSelect]_vars

----------------------------------------------------------------------------
(* One call of is_similar (app.py:32-48, agent.py:49-76, 1.py:32-48) on    *)
(* two titles and a threshold.                                             *)

\* the titles is_similar is called on:
\*   ""  "tide"  "diet"  "ab cd"  "AB-cd"  "ab cx"  "cd ab"  "!!"
ScoreTitles ==
    { <<>>,
      <<"t", "i", "d", "e">>,
      <<"d", "i", "e", "t">>,
      <<"a", "b", " ", "c", "d">>,
      <<"A", "B", "-", "c", "d">>,
      <<"a", "b", " ", "c", "x">>,
      <<"c", "d", " ", "a", "b">>,
      <<"!", "!">> }

\* the thresholds: 0.4, 0.6 (utils.py:344), 0.8 (the default) and 1.0
Thresholds == {<<2, 5>>, <<3, 5>>, DefaultThreshold, <<1, 1>>}

InitScore ==
    /\ IdleB
    /\ IdleL
    /\ IdleH
    /\ IdleE
    /\ IdleR
    /\ IdleV
    /\ IdleD
    /\ argA \in ScoreTitles
    /\ argB \in ScoreTitles
    /\ argT \in Thresholds
    /\ matched = "none"
    /\ pcS = "called"

\* app.py:32-48: the call returns (max_similarity > threshold, max_similarity)
IsSimilarReturns ==
    /\ pcS = "called"
    /\ matched' = [match |-> is_similar(argA, argB, argT),
                   max_similarity |-> MaxSimilarity(argA, argB)]
    /\ pcS' = "returned"
    /\ UNCHANGED <<argA, argB, argT>>
    /\ UNCHANGED <<varsE, varsR, varsV, varsD, varsB, varsL, varsH>>

NextScore == IsSimilarReturns

\* is_similar on any two titles of the pool, with any threshold of the pool
SpecScore == InitScore /\ [][NextScore]_vars

----------------------------------------------------------------------------
(* One call of safe_download (agent.py:26-37): the retry loop around       *)
(* result.download_pdf. An attempt either returns or raises; a raised      *)
(* exception is caught, followed by time.sleep(2) and the next attempt.    *)

\* agent.py:26: the default of max_retries, which the only caller
\* (agent.py:180) leaves as it is
max_retries == 3

\* agent.py:36
BackoffSeconds == 2

\* range(max_retries + 1) in place of range(max_retries)
MoreAttemptsInclusive(attempt, limit) == attempt <= limit

\* agent.py:27: for attempt in range(max_retries) has another value to take
MoreAttempts(attempt, limit) == attempt < limit

InitDownload ==
    /\ IdleB
    /\ IdleL
    /\ IdleH
    /\ IdleE
    /\ IdleR
    /\ IdleV
    /\ IdleS
    /\ dlTitle \in TitlePool
    /\ dlIndex \in 0..MaxRefs
    /\ attempts = 0
    /\ failures = <<>>
    /\ slept = 0
    /\ files = {}
    /\ success = "none"
    /\ pcD = "try"

\* agent.py:28-32: download_pdf returns; the file is written and the
\* function returns True
DownloadSucceeds ==
    /\ pcD = "try"
    /\ MoreAttempts(attempts, max_retries)
    /\ attempts' = attempts + 1
    /\ files' = files \cup {dlIndex + 1}
    /\ success' = "True"
    /\ pcD' = "returned"
    /\ UNCHANGED <<dlTitle, dlIndex, failures, slept>>
    /\ UNCHANGED <<varsE, varsR, varsV, varsS, varsB, varsL, varsH>>

\* agent.py:33-36: download_pdf raises; the exception is caught and the
\* loop sleeps before its next attempt
DownloadRaises ==
    /\ pcD = "try"
    /\ MoreAttempts(attempts, max_retries)
    /\ \E e \in ErrorPool : failures' = Append(failures, e)
    /\ attempts' = attempts + 1
    /\ slept' = slept + BackoffSeconds
    /\ UNCHANGED <<dlTitle, dlIndex, files, success, pcD>>
    /\ UNCHANGED <<varsE, varsR, varsV, varsS, varsB, varsL, varsH>>

\* agent.py:37: the loop is exhausted and the function returns False
GiveUp ==
    /\ pcD = "try"
    /\ ~MoreAttempts(attempts, max_retries)
    /\ success' = "False"
    /\ pcD' = "returned"
    /\ UNCHANGED <<dlTitle, dlIndex, attempts, failures, slept, files>>
    /\ UNCHANGED <<varsE, varsR, varsV, varsS, varsB, varsL, varsH>>

NextDownload == DownloadSucceeds \/ DownloadRaises \/ GiveUp

\* one call of safe_download; the function is sequential code, so a step
\* that can be taken is taken
SpecDownload == InitDownload /\ [][NextDownload]_vars /\ WF_vars(NextDownload)

----------------------------------------------------------------------------
(* Agent.download_literatures (agent.py:137-225). A search result is        *)
(* modelled by its title and by the number of times its download_pdf        *)
(* raises before it returns.                                                *)

MaxCandidates == 2

\* result.title of a result that has none: is_similar raises on it
Untitled == "untitled"

\* the results search_from_arxiv may yield: the download returns at once,
\* at the last attempt, or never
CandidatePool ==
    [title : ResultPool \cup {Untitled},
     raises : {0, max_retries - 1, max_retries}]

\* agent.py:26-37: safe_download returns True when download_pdf returns
\* within max_retries attempts
SafeDownload(result) == MoreAttempts(result.raises, max_retries)

\* the flag left as it is after a download that failed
FoundKept(found) == found

\* agent.py:182-183: else: found = False
FoundAfterFailure(found) == FALSE

\* agent.py:174-183: the loop over the search results from position j on.
\* raised: is_similar raised; wrote: a download returned True
RECURSIVE TryCandidates(_, _, _, _, _)
TryCandidates(search_results, title, j, found, calls) ==
    IF j > Len(search_results)
    THEN [found |-> found, raised |-> FALSE, examined |-> Len(search_results),
          calls |-> calls, wrote |-> FALSE]
    ELSE IF search_results[j].title = Untitled
    THEN [found |-> found, raised |-> TRUE, examined |-> j,
          calls |-> calls, wrote |-> FALSE]
    ELSE IF IsMatch(search_results[j].title, title)
    THEN IF SafeDownload(search_results[j])
         THEN [found |-> TRUE, raised |-> FALSE, examined |-> j,
               calls |-> calls + 1, wrote |-> TRUE]
         ELSE TryCandidates(search_results, title, j + 1,
                            FoundAfterFailure(TRUE), calls + 1)
    ELSE TryCandidates(search_results, title, j + 1, found, calls)

\* where the for statement of agent.py:147 goes after iteration i
AfterDownload(i) == IF i = Len(dl_titles) THEN "stats" ELSE "loop"

InitLiteratures ==
    /\ IdleE /\ IdleR /\ IdleV /\ IdleS /\ IdleD /\ IdleB /\ IdleH
    /\ dl_titles \in SeqsUpTo(TitlePool, MaxRefs)
    /\ dl_idx = 0
    /\ existing \in SUBSET (1..Len(dl_titles))
    /\ failed_titles = <<>>
    /\ skipped_titles = <<>>
    /\ downloaded = {}
    /\ dl_last = NoDownload
    /\ dl_stats = [computed |-> FALSE]
    /\ pcL = AfterDownload(0)

\* agent.py:154-157: the file of the title exists
SkipExisting ==
    /\ pcL = "loop"
    /\ dl_idx + 1 \in existing
    /\ skipped_titles' = Append(skipped_titles, dl_titles[dl_idx + 1])
    /\ dl_last' = [searched |-> "no", candidates |-> 0, calls |-> 0,
                   outcome |-> "skipped"]
    /\ dl_idx' = dl_idx + 1
    /\ pcL' = AfterDownload(dl_idx + 1)
    /\ UNCHANGED <<dl_titles, existing, failed_titles, downloaded, dl_stats>>
    /\ UNCHANGED <<varsE, varsR, varsV, varsS, varsD, varsB, varsH>>

\* agent.py:163 and 189-191: search_from_arxiv raises
SearchFails ==
    /\ pcL = "loop"
    /\ dl_idx + 1 \notin existing
    /\ failed_titles' = Append(failed_titles, dl_titles[dl_idx + 1])
    /\ dl_last' = [searched |-> "raised", candidates |-> 0, calls |-> 0,
                   outcome |-> "failed"]
    /\ dl_idx' = dl_idx + 1
    /\ pcL' = AfterDownload(dl_idx + 1)
    /\ UNCHANGED <<dl_titles, existing, skipped_titles, downloaded, dl_stats>>
    /\ UNCHANGED <<varsE, varsR, varsV, varsS, varsD, varsB, varsH>>

\* agent.py:159-191: search_from_arxiv returns and the results are tried
SearchAndDownload ==
    /\ pcL = "loop"
    /\ dl_idx + 1 \notin existing
    /\ \E search_results \in SeqsUpTo(CandidatePool, MaxCandidates) :
          LET i == dl_idx + 1
              title == dl_titles[i]
              tried == TryCandidates(search_results, title, 1, FALSE, 0)
              fails == search_results = <<>> \/ tried.raised \/ ~tried.found
          IN  /\ failed_titles' =
                     IF fails THEN Append(failed_titles, title) ELSE failed_titles
              /\ downloaded' =
                     IF tried.wrote THEN downloaded \cup {i} ELSE downloaded
              /\ dl_last' = [searched |-> "returned", candidates |-> tried.examined,
                             calls |-> tried.calls,
                             outcome |-> IF fails THEN "failed" ELSE "kept"]
              /\ dl_idx' = i
              /\ pcL' = AfterDownload(i)
    /\ UNCHANGED <<dl_titles, existing, skipped_titles, dl_stats>>
    /\ UNCHANGED <<varsE, varsR, varsV, varsS, varsD, varsB, varsH>>

\* agent.py:197-203: the counts printed after the loop
DownloadStats ==
    /\ pcL = "stats"
    /\ dl_stats' = [computed |-> TRUE,
                    total_titles |-> Len(dl_titles),
                    skipped_count |-> Len(skipped_titles),
                    failed_count |-> Len(failed_titles),
                    success_count |->
                        Len(dl_titles) - Len(skipped_titles) - Len(failed_titles)]
    /\ pcL' = "done"
    /\ UNCHANGED <<dl_titles, dl_idx, existing, failed_titles, skipped_titles,
                   downloaded, dl_last>>
    /\ UNCHANGED <<varsE, varsR, varsV, varsS, varsD, varsB, varsH>>

NextLiteratures == SkipExisting \/ SearchFails \/ SearchAndDownload \/ DownloadStats

\* download_literatures over any titles, files, searches and downloads
SpecLiteratures == InitLiteratures /\ [][NextLiteratures]_vars

----------------------------------------------------------------------------
(* Properties of marker extraction and reconciliation *)

\* the three documents made of the markers [1], [2,3] and [2,3]
ScenarioDocs ==
    LET m1 == <<"[", "1", "]">>
        m23 == <<"[", "2", ",", "3", "]">>
    IN  {m1 \o m23 \o m23, m23 \o m1 \o m23, m23 \o m23 \o m1}

ScenarioDone ==
    pcE = "done" /\ content \in ScenarioDocs /\ titlesN = 5

\* the duplicates with their counts, as the run reports them
DuplicateCounts(cnt) == [n \in Duplicates(cnt) |-> cnt[n]]

\* C1 as stated: for 5 titles and the markers [1], [2,3], [2,3] the run
\* reports missing = {4,5} and duplicates = {2:2, 3:2}.
C1_Original ==
    ScenarioDone =>
        /\ missed_citations = {4, 5}
        /\ DuplicateCounts(counter) = [n \in {2, 3} |-> 2]

\* C1 amended: for 5 titles and the markers [1], [2,3], [2,3] the repeated
\* [2,3] is collapsed by the extractor, so 1, 2 and 3 are each counted once
\* and none of them is reported as a duplicate; the missing set is within
\* {4,5}, and when the model-assisted pass adds no marker the run reports
\* missing = {4,5} and no duplicates.
C1_Amended ==
    ScenarioDone =>
        /\ \A n \in {1, 2, 3} : n \in DOMAIN counter /\ counter[n] = 1
        /\ missed_citations \subseteq {4, 5}
        /\ aiAccepted = {} =>
              /\ missed_citations = {4, 5}
              /\ Duplicates(counter) = {}

\* the scenario ran to its statistics, through a fallback that added nothing
C1_Witness ==
    ScenarioDone /\ via = "merged" /\ aiAccepted = {} /\ Len(citations_to_text) = 2

\* two number lists with the same sorted tuple
SameSortedTuple(a, b) ==
    /\ Len(a) = Len(b)
    /\ \A n \in Range(a) \cup Range(b) : CountIn(n, a) = CountIn(n, b)

Text_3_1 == <<"[", "3", ",", " ", "1", "]">>

Text_1_3 == <<"[", "1", ",", " ", "3", "]">>

\* the documents that hold both [3, 1] and [1, 3]
BothOrders ==
    {d \in Documents : Contains(Text_3_1, d) /\ Contains(Text_1_3, d)}

\* C9: no two markers of the regex pass have the same sorted tuple of
\* numbers; a text holding both [3, 1] and [1, 3] yields exactly one marker
\* for the numbers 1 and 3.
C9_PrimaryDedup ==
    /\ \A i, j \in 1..Len(regex_results) :
          i # j => ~SameSortedTuple(regex_results[i].cit, regex_results[j].cit)
    /\ (pcE # "markers" /\ content \in BothOrders)
          => Cardinality({k \in 1..Len(regex_results) :
                            SameSortedTuple(regex_results[k].cit, <<1, 3>>)}) = 1

\* the regex pass ran on a text where [3, 1] comes before [1, 3]
C9_Witness ==
    /\ pcE # "markers"
    /\ content = Text_3_1 \o Text_1_3
    /\ Len(regex_results) = 1
    /\ regex_results[1].cit = <<3, 1>>

\* the entries of s at the indices in S from k on, in order
RECURSIVE PickFrom(_, _, _)
PickFrom(s, S, k) ==
    IF k > Len(s) THEN <<>>
    ELSE (IF k \in S THEN <<s[k]>> ELSE <<>>) \o PickFrom(s, S, k + 1)

\* C10: a fallback marker is appended if and only if none of its numbers
\* occurs in a marker accepted so far (the primary markers and the fallback
\* markers accepted before it); the result is the primary markers followed
\* by the accepted fallback markers, each whole.
C10_FallbackMerge ==
    via = "merged" =>
        LET ai == all_ai_results
            Before(k) == NumbersOf(regex_results)
                         \cup UNION {Range(ai[j].cit) : j \in {h \in aiAccepted : h < k}}
        IN  /\ aiAccepted \subseteq 1..Len(ai)
            /\ \A k \in 1..Len(ai) :
                  (k \in aiAccepted) <=> (Range(ai[k].cit) \cap Before(k) = {})
            /\ citations_to_text = regex_results \o PickFrom(ai, aiAccepted, 1)

\* a merge that accepted one fallback marker, dropped one that shares a
\* number with a primary marker and dropped one that shares a number only
\* with the accepted fallback marker
C10_Witness ==
    /\ via = "merged"
    /\ aiAccepted # {}
    /\ \E k \in 1..Len(all_ai_results) :
          /\ k \notin aiAccepted
          /\ Range(all_ai_results[k].cit) \cap NumbersOf(regex_results) = {}
    /\ Len(regex_results) > 0

----------------------------------------------------------------------------
(* Properties of the arXiv title loop *)

\* the title the latest iteration worked on
LatestTitle == titles[titleIdx]

\* positions of the latest search results whose similarity to the title is
\* strictly above 0.8
AboveThreshold ==
    {j \in 1..Len(search.results) :
        FracGreater(Similarity[search.results[j], LatestTitle], <<4, 5>>)}

FirstAbove == CHOOSE j \in AboveThreshold : \A h \in AboveThreshold : j <= h

LastOf(seq) == seq[Len(seq)]

RecordsOf(seq, i) == {k \in 1..Len(seq) : seq[k].index = i}

\* C2: whenever the provider returned results of which some score strictly
\* above 0.8 against the title, the record stored for the title is the first
\* such result in provider order (with its own score), whatever the later
\* results score, and is_similar was given no result after it.
C2_EarlyAccept ==
    (titleIdx >= 1 /\ ~search.raised /\ AboveThreshold # {}) =>
        /\ Len(arxiv_found) >= 1
        /\ LastOf(arxiv_found).index = titleIdx
        /\ LastOf(arxiv_found).title = LatestTitle
        /\ LastOf(arxiv_found).arxiv_title = search.results[FirstAbove]
        /\ LastOf(arxiv_found).similarity =
               Similarity[search.results[FirstAbove], LatestTitle]
        /\ examined = FirstAbove
        /\ Cardinality(RecordsOf(arxiv_found, titleIdx)) = 1
        /\ RecordsOf(arxiv_not_found, titleIdx) = {}

\* the accepted result is followed by one that scores strictly higher
C2_Witness ==
    /\ titleIdx >= 1
    /\ ~search.raised
    /\ AboveThreshold # {}
    /\ \E j \in AboveThreshold :
          /\ j > FirstAbove
          /\ FracGreater(Similarity[search.results[j], LatestTitle],
                         Similarity[search.results[FirstAbove], LatestTitle])
    /\ LastOf(arxiv_found).arxiv_title = search.results[FirstAbove]

\* C3: no exception leaves an iteration of the title loop; an iteration whose
\* search raised, returned nothing, or returned no result above the threshold
\* records the title as not found (with the exception's text when it raised)
\* and not as found; every title up to the latest has exactly one record, and
\* the loop ends only after the last title.
C3_SoftFailure ==
    /\ pcR \in {"loop", "done"}
    /\ (pcR = "done") <=> (titleIdx = Len(titles))
    /\ \A i \in 1..titleIdx :
          Cardinality(RecordsOf(arxiv_found, i)) + Cardinality(RecordsOf(arxiv_not_found, i)) = 1
    /\ Len(arxiv_found) + Len(arxiv_not_found) = titleIdx
    /\ (titleIdx >= 1 /\ search.raised) =>
          /\ Len(arxiv_not_found) >= 1
          /\ LastOf(arxiv_not_found) =
                 [index |-> titleIdx, title |-> LatestTitle, error |-> search.error]
    /\ (titleIdx >= 1 /\ ~search.raised /\ AboveThreshold = {}) =>
          /\ Len(arxiv_not_found) >= 1
          /\ LastOf(arxiv_not_found) = [index |-> titleIdx, title |-> LatestTitle]

\* the search raised for the first title and the loop went on to the second,
\* whose search returned results of which none is above the threshold
C3_Witness ==
    /\ pcR = "done"
    /\ titleIdx = 2
    /\ Len(arxiv_not_found) = 2
    /\ arxiv_not_found[1].index = 1
    /\ "error" \in DOMAIN arxiv_not_found[1]
    /\ ~search.raised
    /\ Len(search.results) >= 1
    /\ AboveThreshold = {}
    /\ arxiv_not_found[2] = [index |-> 2, title |-> titles[2]]

----------------------------------------------------------------------------
(* Properties of the verification loops *)

\* the citation of the marker processed last
LatestCitation == markers[markerIdx]

\* positions of the latest citation whose number is a valid reference index
InRange == {k \in 1..Len(LatestCitation) :
               1 <= LatestCitation[k] /\ LatestCitation[k] <= Len(titles)}

C5_Original ==
    (markerIdx >= 1 /\ (last.search_raised \/ last.load = "raised" \/ last.model = "raised")) =>
        /\ last.outcome = "error"
        /\ mode # "agent_heavy" => LastOf(verification_results).status = "error"

\* C5 amended: when the model call raises (in the PDF loop of app.py also
\* when load_pdf raises) the marker's outcome is 'error' with the exception's
\* message as reason; a metadata search that raises is absorbed for its
\* title, so the marker is 'skipped' when no cited title yields metadata and
\* goes on to the model call otherwise; Agent.verify_citation_sentences
\* counts a marker whose load or model call raises as skipped.
C5_Amended ==
    markerIdx >= 1 =>
        /\ (mode = "light" /\ last.model = "raised") =>
              LastOf(verification_results) =
                  [citation |-> LatestCitation, status |-> "error", reason |-> "model error"]
        /\ (mode = "light" /\ last.search_raised) =>
              /\ last.model = "none" =>
                    LastOf(verification_results) =
                        [citation |-> LatestCitation, status |-> "skipped",
                         reason |-> "no metadata for the cited references"]
              /\ last.model = "returned" => LastOf(verification_results).status = "verified"
        /\ (mode = "app_heavy" /\ last.load = "raised") =>
              LastOf(verification_results) =
                  [citation |-> LatestCitation, status |-> "error", reason |-> "pdf error"]
        /\ (mode = "app_heavy" /\ last.model = "raised") =>
              LastOf(verification_results) =
                  [citation |-> LatestCitation, status |-> "error", reason |-> "model error"]
        /\ (mode = "agent_heavy" /\ (last.load = "raised" \/ last.model = "raised")) =>
              /\ last.outcome = "skipped"
              /\ skipped_count >= 1

\* one search raised, another cited title yielded metadata, and the model
\* call raised
C5_Witness ==
    /\ mode = "light"
    /\ markerIdx >= 1
    /\ last.search_raised
    /\ last.model = "raised"
    /\ LastOf(verification_results).status = "error"

\* C6: the loops that keep outcome records hold, after k markers, exactly k
\* records, the j-th for the j-th marker, each with one status of verified,
\* skipped, error.
C6_OneOutcomePerMarker ==
    mode \in {"light", "app_heavy"} =>
        /\ Len(verification_results) = markerIdx
        /\ \A k \in 1..Len(verification_results) :
              /\ k <= Len(markers)
              /\ verification_results[k].citation = markers[k]
              /\ verification_results[k].status \in {"verified", "skipped", "error"}

\* the verdict of a response by the stated rule: the yes token first, then
\* the no character, else ambiguous
StatedVerdict(response) ==
    IF response = None THEN "none"
    ELSE IF Contains(YesToken, response) THEN "consistent"
    ELSE IF Contains(NoChar, response) THEN "inconsistent"
    ELSE "ambiguous"

\* C7: wherever a loop classifies the response it just received, and in the
\* lists of format_verification_results, the verdict is the one of the stated
\* rule, the yes token taking precedence.
C7_Classification ==
    /\ (markerIdx >= 1 /\ last.verdict # "none") =>
          last.verdict = StatedVerdict(LastOf(responses))
    /\ (mode = "app_heavy" /\ pcV = "done") =>
          \A k \in 1..Len(verification_results) :
             LET r == verification_results[k]
                 listed == \E j \in 1..Len(stats.verified_correct) :
                               stats.verified_correct[j] = r.citation
             IN  (r.status = "verified" /\ StatedVerdict(r.result) = "consistent") => listed

StatedCount(verdict) ==
    Cardinality({k \in 1..Len(responses) : StatedVerdict(responses[k]) = verdict})

\* C8: the accuracy reported at the end is consistent / (consistent +
\* inconsistent) over the classified responses, and no ratio is reported when
\* that denominator is zero.
C8_Accuracy ==
    pcV = "done" =>
        stats.accuracy_rate =
            IF StatedCount("consistent") + StatedCount("inconsistent") = 0 THEN NoRatio
            ELSE Frac(StatedCount("consistent"),
                      StatedCount("consistent") + StatedCount("inconsistent"))

----------------------------------------------------------------------------
(* Marker extraction: when the model is called, and what failures do.      *)

\* C11: the model is called during marker extraction only when the document
\* is non-empty and the regex pass yields 10 or fewer markers; with more
\* than 10 markers the function returns exactly the regex result and has
\* made no model call.
C11_FallbackTrigger ==
    /\ (modelCalls > 0 \/ pcE = "chunk") =>
          /\ content # <<>>
          /\ Len(regex_results) <= 10
    /\ Len(regex_results) > 10 =>
          /\ pcE = "returned"
          /\ citations_to_text = regex_results
          /\ modelCalls = 0

\* the eleven-marker document has been returned by the regex pass alone
C11_Witness ==
    /\ pcE = "returned"
    /\ via = "primary"
    /\ Len(citations_to_text) = 11

\* a list of markers: [citations, text] pairs
IsMarkerList(v) ==
    /\ DOMAIN v = 1..Len(v)
    /\ \A k \in 1..Len(v) : DOMAIN v[k] = {"cit", "text"}

\* C12: get_citation_markers never raises: whatever the document (empty
\* included) and whatever the model call does (any text, an exception, a
\* missing credential), the run is never left by an exception and what it
\* returns is a list of markers.
C12_NeverRaises ==
    /\ pcE \in {"markers", "chunk", "returned"}
    /\ pcE = "returned" =>
          /\ via \in {"empty", "primary", "nokey", "aifail", "merged"}
          /\ IsMarkerList(citations_to_text)

\* the credential is missing and the markers of the regex pass came back
C12_Witness ==
    /\ pcE = "returned"
    /\ ~apiKey
    /\ via = "nokey"
    /\ Len(citations_to_text) > 0

\* C13: if the model call fails on any chunk (first, middle or last), the
\* function returns the markers of the regex pass, all of them, in the same
\* order and with the same content, and the failing call is the last call:
\* no later chunk is sent to the model.
C13_Degradation ==
    via = "aifail" =>
        /\ pcE = "returned"
        /\ citations_to_text = extract_citations_with_regex(content)
        /\ modelCalls = chunkIdx + 1
        /\ modelCalls <= NumChunks(content)

\* the call for the middle chunk of a three-chunk document failed after the
\* first chunk had given markers
C13_Witness ==
    /\ via = "aifail"
    /\ NumChunks(content) = 3
    /\ chunkIdx = 1
    /\ all_ai_results # <<>>
    /\ Len(citations_to_text) = 2

\* C20: a missing credential is fatal: when ZHIPUAI_API_KEY is not set the
\* run ends before any marker is processed, and the missing credential is
\* never absorbed by a recovery that returns a partial result.
C20_FatalConfiguration ==
    (~apiKey /\ pcE = "returned") =>
        /\ regex_results = <<>>
        /\ citations_to_text = <<>>

----------------------------------------------------------------------------
(* Reconciliation: the missing set and the duplicates.                     *)

\* the numbers occurring in any marker of ms
MarkerNumbers(ms) == UNION {Range(ms[k].cit) : k \in 1..Len(ms)}

\* how often n occurs in the markers of ms, repeats inside a marker included
RECURSIVE Multiplicity(_, _)
Multiplicity(n, ms) ==
    IF Len(ms) = 0 THEN 0
    ELSE CountIn(n, Head(ms).cit) + Multiplicity(n, Tail(ms))

\* C14: for N titles and any markers, the reported missing set is {1..N}
\* minus the numbers occurring in any marker; with no markers it is {1..N},
\* and with N = 0 it is empty whatever the markers are.
C14_MissingSet ==
    pcE = "done" =>
        /\ missed_citations = (1..titlesN) \ MarkerNumbers(citations_to_text)
        /\ citations_to_text = <<>> => missed_citations = 1..titlesN
        /\ titlesN = 0 => missed_citations = {}

\* five titles, markers naming 1, 2 and 3: the titles 4 and 5 are missing
C14_Witness ==
    /\ pcE = "done"
    /\ titlesN = 5
    /\ MarkerNumbers(citations_to_text) = {1, 2, 3}
    /\ missed_citations = {4, 5}

\* C15: the reported duplicates are exactly the numbers whose multiplicity
\* over all markers (repeats across markers and inside one marker) is
\* greater than 1, each with that multiplicity; with no markers there are
\* no duplicates.
C15_Duplicates ==
    pcE = "done" =>
        /\ Duplicates(counter) =
              {n \in MarkerNumbers(citations_to_text) :
                  Multiplicity(n, citations_to_text) > 1}
        /\ \A n \in Duplicates(counter) :
              counter[n] = Multiplicity(n, citations_to_text)
        /\ citations_to_text = <<>> => Duplicates(counter) = {}

\* [2,2] and [2,3]: the number 2 is counted three times, twice inside one
\* marker and once more in another
C15_Witness ==
    /\ pcE = "done"
    /\ Len(citations_to_text) = 2
    /\ Duplicates(counter) = {2}
    /\ counter[2] = 3

----------------------------------------------------------------------------
(* The title similarity scorer.                                            *)

\* x > y for fractions with positive denominators
Above(x, y) == x[1] * y[2] > y[1] * x[2]

\* the word set of the normalized form of a title
Tokens(a) == Range(Words(clean_title_for_comparison(a)))

\* the Jaccard overlap of two token sets, 0 when either is empty
Jaccard(ta, tb) ==
    IF ta = {} \/ tb = {} THEN <<0, 1>>
    ELSE Frac(Cardinality(ta \cap tb), Cardinality(ta \cup tb))

\* the three scores of a pair of titles
ThreeScores(a, b) ==
    { Ratio(Lower(a), Lower(b)),
      Ratio(clean_title_for_comparison(a), clean_title_for_comparison(b)),
      Jaccard(Tokens(a), Tokens(b)) }

\* C16: is_similar(a, b, threshold) reports a match exactly when the
\* greatest of the raw case-insensitive ratio, the ratio of the normalized
\* forms and the Jaccard word overlap (0 when either token set is empty) is
\* strictly greater than the threshold; a score equal to the threshold is
\* not a match.
C16_MatchPredicate ==
    pcS = "returned" =>
        /\ matched.match = (\E x \in ThreeScores(argA, argB) : Above(x, argT))
        /\ (\A x \in ThreeScores(argA, argB) : ~Above(x, argT)) => ~matched.match

\* "ab cx" against "ab cd" scores exactly 0.8, which is no match at 0.8
C16_Witness ==
    /\ pcS = "returned"
    /\ argT = <<4, 5>>
    /\ argT \in ThreeScores(argA, argB)
    /\ \A x \in ThreeScores(argA, argB) : ~Above(x, argT)
    /\ ~matched.match

\* C17: for all title pairs (a, b) the score of (a, b) equals the score of
\* (b, a), so is_similar(a, b, t) and is_similar(b, a, t) agree.
C17_Symmetry ==
    pcS = "returned" =>
        /\ matched.max_similarity = MaxSimilarity(argB, argA)
        /\ matched.match = is_similar(argB, argA, argT)

\* C18: for every non-empty title a the score of (a, a) is exactly 1.0, so
\* is_similar(a, a, t) is true for every threshold t < 1.
C18_Identity ==
    (pcS = "returned" /\ argA = argB /\ argA # <<>>) =>
        /\ matched.max_similarity = <<1, 1>>
        /\ Above(<<1, 1>>, argT) => matched.match

\* a title of punctuation only, whose normalized form is empty, scored
\* against itself
C18_Witness ==
    /\ pcS = "returned"
    /\ argA = argB
    /\ argA # <<>>
    /\ Tokens(argA) = {}
    /\ argT = <<4, 5>>
    /\ matched.match

----------------------------------------------------------------------------
(* The download retry loop.                                                *)

\* what holds of safe_download at every point of a call
RetryBounds ==
    /\ attempts <= 3
    /\ pcD \in {"try", "returned"}
    /\ pcD = "try" => Len(failures) = attempts
    /\ pcD = "returned" => success \in {"True", "False"}
    /\ (pcD = "returned" /\ success = "True") =>
          /\ Len(failures) = attempts - 1
          /\ files = {dlIndex + 1}
    /\ (pcD = "returned" /\ success = "False") =>
          /\ attempts = 3
          /\ Len(failures) = 3
          /\ files = {}

\* C19: one call of safe_download makes at most 3 download attempts, stops
\* and reports success at the first attempt that succeeds (every attempt
\* before it failed), after 3 failed attempts returns failure without
\* raising, and always returns.
C19_BoundedRetry == []RetryBounds /\ <>(pcD = "returned")

\* three attempts failed and the call returned False
C19_Witness ==
    /\ pcD = "returned"
    /\ success = "False"
    /\ attempts = 3
    /\ slept = 6

----------------------------------------------------------------------------
(* The verification loops: evidence, counters and verdict counts.          *)

\* C21: in the PDF-based loops a marker for which any cited number has no
\* file in the reference folder gets the outcome skipped, with no file load
\* and no model call, and only that marker is affected: the loop goes on to
\* every later marker.
C21_MissingFileSkips ==
    mode \in {"app_heavy", "agent_heavy"} =>
        /\ (markerIdx >= 1 /\ Range(LatestCitation) \ ref_names # {}) =>
              /\ last.outcome = "skipped"
              /\ last.load = "none"
              /\ last.model = "none"
              /\ mode = "app_heavy" =>
                    /\ LastOf(verification_results).status = "skipped"
                    /\ LastOf(verification_results).citation = LatestCitation
        /\ markerIdx < Len(markers) => pcV = "loop"
        /\ pcV # "loop" => markerIdx = Len(markers)

\* the first marker cites a number without a file, and the second marker
\* went on to the model
C21_Witness ==
    /\ mode \in {"app_heavy", "agent_heavy"}
    /\ markerIdx = 2
    /\ Range(markers[1]) \ ref_names # {}
    /\ Range(markers[2]) \ ref_names = {}
    /\ last.load = "text"
    /\ last.model = "returned"

\* the Scorer's score of a fetched record against the title being looked up
ScorerScore(record) == MaxSimilarity(Chars(selTitle), Chars(record))

\* C22: among the fetched metadata records the one selected for a title is
\* the record with the highest Scorer score (the greatest of the three
\* signals) against the title, and only if that score is strictly greater
\* than 0.6; if no record exceeds 0.6 none is selected.
C22_BestByScorer ==
    pcB = "chosen" =>
        /\ (\E k \in 1..Len(fetched) : Above(ScorerScore(fetched[k]), <<3, 5>>)) =>
              /\ chosen # NoRecord
              /\ \A k \in 1..Len(fetched) :
                    ~Above(ScorerScore(fetched[k]), ScorerScore(chosen))
        /\ (\A k \in 1..Len(fetched) : ~Above(ScorerScore(fetched[k]), <<3, 5>>)) =>
              chosen = NoRecord

----------------------------------------------------------------------------
(* The markers the extractor returns.                                      *)

\* the sequence holds no value twice
NoRepeats(s) == \A i, j \in 1..Len(s) : s[i] = s[j] => i = j

\* C23: no marker returned by the extractor, from the regex pass or from a
\* line of the model, holds the same number twice; the bracket [2,2] gives
\* a marker whose numbers hold 2 once.
C23_NumbersAreSet ==
    pcE = "returned" =>
        \A k \in 1..Len(citations_to_text) : NoRepeats(citations_to_text[k].cit)

\* C24: every marker of the list get_citation_markers returns, from the
\* regex pass or from a parsed line of the model, has at least one number.
C24_NumbersNonEmpty ==
    /\ \A k \in 1..Len(regex_results) : Len(regex_results[k].cit) >= 1
    /\ \A k \in 1..Len(all_ai_results) : Len(all_ai_results[k].cit) >= 1
    /\ pcE = "returned" =>
          \A k \in 1..Len(citations_to_text) : Len(citations_to_text[k].cit) >= 1

\* the merged list holds markers of both passes
C24_Witness ==
    /\ pcE = "returned"
    /\ via = "merged"
    /\ regex_results # <<>>
    /\ Len(citations_to_text) > Len(regex_results)

Occurrences(s) == MatchResults(s, FindIter(2, s, 1))

\* the earliest occurrence of s with the sorted numbers of cit
EarliestOccurrence(s, cit) ==
    LET occ == Occurrences(s)
        same == {k \in 1..Len(occ) : CitationKey(occ[k].cit) = CitationKey(cit)}
    IN  occ[CHOOSE k \in same : \A h \in same : k <= h]

\* C26: of the bracket occurrences with the same sorted numbers, the marker
\* the regex pass keeps has the number order and the context of the one
\* that comes first in the text, with or without spaces inside the brackets.
C26_FirstOccurrenceWins ==
    (pcE = "returned" /\ via = "nokey") =>
        \A k \in 1..Len(regex_results) :
            regex_results[k] = EarliestOccurrence(content, regex_results[k].cit)

----------------------------------------------------------------------------
(* The title loop and the download loop: every title is accounted for.     *)

\* the entries of a result list that carry reference index i
EntriesOf(i, list) == {k \in 1..Len(list) : list[k].index = i}

\* C27: when the title loop has finished, whatever the provider did, every
\* reference index 1..len(titles) is in exactly one entry of arxiv_found and
\* arxiv_not_found taken together, so the two lengths add up to len(titles);
\* during the loop this holds for the titles processed so far; and every
\* entry of arxiv_found has a similarity strictly greater than 0.8.
C27_ResolverPartition ==
    /\ pcR = "done" => titleIdx = Len(titles)
    /\ Len(arxiv_found) + Len(arxiv_not_found) = titleIdx
    /\ \A i \in 1..titleIdx :
          Cardinality(EntriesOf(i, arxiv_found))
              + Cardinality(EntriesOf(i, arxiv_not_found)) = 1
    /\ \A k \in 1..Len(arxiv_found) :
          /\ arxiv_found[k].index \in 1..titleIdx
          /\ FracGreater(arxiv_found[k].similarity, <<4, 5>>)
    /\ \A k \in 1..Len(arxiv_not_found) : arxiv_not_found[k].index \in 1..titleIdx

\* two titles: the first matched a result, the search for the second raised
C27_Witness ==
    /\ pcR = "done"
    /\ Len(titles) = 2
    /\ Len(arxiv_found) = 1
    /\ arxiv_found[1].index = 1
    /\ Len(arxiv_not_found) = 1
    /\ search.raised

\* C28: in download_literatures, whatever the searches and the downloads do,
\* every title processed is in exactly one of three groups: skipped (its
\* file existed, and then nothing was searched or downloaded), failed, or
\* newly downloaded; a title that was not skipped is in failed exactly when
\* no download for it succeeded; and success_count, computed as total minus
\* skipped minus failed, is the number of titles with a successful download.
C28_DownloadAccounting ==
    /\ Len(skipped_titles) + Len(failed_titles) + Cardinality(downloaded) = dl_idx
    /\ downloaded \cap existing = {}
    /\ dl_idx >= 1 =>
          /\ dl_last.outcome = "skipped" <=> dl_idx \in existing
          /\ dl_last.outcome = "skipped" =>
                /\ dl_last.searched = "no" /\ dl_last.calls = 0
                /\ LastOf(skipped_titles) = dl_titles[dl_idx]
          /\ dl_last.outcome = "failed" <=>
                (dl_idx \notin existing /\ dl_idx \notin downloaded)
          /\ dl_last.outcome = "failed" => LastOf(failed_titles) = dl_titles[dl_idx]
    /\ pcL \in {"stats", "done"} => dl_idx = Len(dl_titles)
    /\ dl_stats.computed =>
          /\ dl_stats.total_titles = Len(dl_titles)
          /\ dl_stats.success_count = Cardinality(downloaded)
          /\ dl_stats.success_count + dl_stats.skipped_count
                + dl_stats.failed_count = dl_stats.total_titles

\* two titles, none skipped: for the second a first matching result could
\* not be downloaded and then the loop ended without a download; the first
\* was downloaded
C28_Witness ==
    /\ dl_stats.computed
    /\ Len(dl_titles) = 2
    /\ existing = {}
    /\ downloaded = {1}
    /\ dl_last.calls = 1
    /\ dl_last.candidates = 2
    /\ Len(failed_titles) = 1

----------------------------------------------------------------------------
(* The counters of the verification loops.                                 *)

\* C29: in Agent.verify_citation_sentences, whatever the model and the
\* loading of the files do (a model call that returns a value that is no
\* text, or raises, included), checked_count + skipped_count is the number
\* of markers processed: every marker is counted once, as checked or as
\* skipped.
C29_HeavyCounters ==
    mode = "agent_heavy" => checked_count + skipped_count = markerIdx

\* C30: in the verification statistics, whatever the model answered, every
\* verified outcome is counted in at most one of correct_count and
\* incorrect_count: correct_count + incorrect_count <= verified_count, and
\* the accuracy reported is at most 100%.
C30_VerdictCountsDisjoint ==
    (mode \in {"light", "app_heavy"} /\ pcV = "done") =>
        /\ stats.correct_count + stats.incorrect_count <= stats.verified_count
        /\ stats.verified_count > 0 =>
              ~FracGreater(stats.accuracy_rate, <<1, 1>>)


====
